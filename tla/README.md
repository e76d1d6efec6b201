# Verification of dunena

dunena is a cache server: a native cache library written in Zig, a Bun/TypeScript
platform that adds expiry, persistence, locks, publish/subscribe, a database proxy and
clustering, and clients of its HTTP, WebSocket and Redis interfaces. This directory
models the parts whose state and interleavings matter, model-checks them with TLC on
small instances and proves the most important invariants for every size with TLAPS.

Paths below are relative to the repository; `P/` stands for `packages/platform/src/`.

## 1. The system: components, state, operations, hard behaviours

| Component | State | Operations | What is hard | What makes it correct |
|---|---|---|---|---|
| Cache engine, `zig/src/cache.zig` and `exports.zig` | hash map, doubly linked list in eviction order, `CacheStats` | put, get, casPut, incr, delete, clear, contains, getVersion | two structures and six counters kept together on every path; pointer surgery of the frequency order; unsigned and trapping arithmetic | map and list hold the same keys; memory is exact; counters add up; versions name values; eviction takes the tail of a full cache |
| Cache service, `P/services/cache-service.ts` over `P/bridge/cache-bridge.ts` | known keys, bloom filter, compression, timers and expiry times | get, set, delete, incr, casPut, touch, clear, keys, setRaw, exportEntries, timer callbacks | the engine evicts without telling; timers of overwritten values; an export that reorders what it walks over | every cached key is known and found; one timer per key; indistinguishable from a map with deadlines |
| Persistence, `P/services/persistence-service.ts` | snapshot file, temporary file | save (timer, route, shutdown), load | a crash or an error between any two steps; what is not saved (time to live) | the snapshot is always whole and is the cache's content; load restores it all |
| Locks, `P/services/lock-service.ts` | entries of the same cache, with a lease | acquire, release, extend, forceRelease | leases, expiry timers, other clients, evictions and restarts on the same entries | a lease lasts until the time told unless another client writes its entry, so a lock has one owner; abandoned locks come free |
| Optimistic clients, routes of `P/server/app.ts` | version and value read | GET version, GET value, PUT cas | three requests with writes of others in between | no lost update |
| Write-behind buffer, `P/db/write-behind-buffer.ts` | buffer, flush in progress, retry, counts | add, flush, timer, stop | a flush awaits the database while requests go on; lost answers; retries; shutdown during a flush | order per database; each write counted once; none waits for ever |
| Database proxy and query cache, `P/db/proxy.ts`, `query-cache.ts` | connectors; of each query an entry in the cache service (level 1, with its timer) and a row in SQLite (level 2, with tags and expiry) | register, query, mutation, read and write of the query cache, invalidate by key or tags, flush, close | the database's answer comes after the cache has changed; level 2 may throw after level 1 has changed; the levels expire, evict and restart apart; promotion | the levels never disagree but after a failed write or a restored snapshot; no result is served far beyond its time to live |
| SQLite adapter, `P/db/sqlite-adapter.ts` | tables `kv` and `kv_tags` | set, mset, get, has, delete, clear, query and delete by tags, purge | cascades, upserts that must replace the tags, rows that have expired and are still there, transactions that fail | not to be told from a map of entries with tags that go when they expire |
| Cluster, `P/cluster/*.ts` | per node: view of the others, role, term, election in progress, timers, replicas | start, join, heartbeats, failure detection, leave, election, answers, victory | timers that race with messages; lost, late and reordered messages, crashes, restarts that forget the term, views that differ | one leader while nothing fails, or two until a victory arrives; terms that only grow; a leader in the end; replicas that are members |
| Replication, `P/services/replication-service.ts` | replicas, statistics | add and remove replica, enable and disable, by the cluster service and by routes of operators; the methods that replicate have no caller | two masters of one list and one flag | replicas are members, or an operator's |
| HTTP gateway, `P/server/app.ts`, `router.ts`, `middleware.ts`, with `P/services/rbac-service.ts` | table of routes; buckets of the global and the namespace rate limits; API keys; handlers that wait for a body | authenticate, limit, match, handle; configure and remove limits; create and revoke keys; purge | a key that is revoked or expires while its request waits; windows, purges and changed limits; the order in which routes were registered | never more than twice a limit that stands in its window; keys go back to an administrator; a refused client is let through again |
| Pub/sub and WebSockets, `P/server/websocket.ts`, `P/services/pubsub-service.ts` | sockets with topics and rate window | open, messages, subscribe, unsubscribe, close; events of the cache service | bulk writes, timers and other front ends on the cache a client follows | a client that follows the events knows what is cached, uploads and evictions aside |
| Redis adapter, `packages/redis-adapter/src` | unparsed bytes and namespace of each connection | data, commands | commands cut anywhere, pipelines, SELECT within one | the cuts do not matter; replies match commands; databases stay apart |
| Compression, bloom filter, `zig/src/compression.zig`, `bloom_filter.zig` | none; bits | compress, add, check | run lengths at their limit | round trip; no false negative |

The engine is called synchronously by one thread. The platform is one event loop: a
method without `await` is a step, and what interleaves is requests, timer callbacks,
the continuations of awaited calls, and the death of the process. The cache service
calls the engine through the bridge; persistence, locks, the WebSockets, the Redis adapter,
GraphQL, the first level of the query cache and forwarded writes of the cluster call the
cache service; the rate limiters, the API keys and the SQLite file sit beside it.

Left aside: statistics, analytics and telemetry (nothing decides on them), GraphQL
and the command lines (other ways to call the same methods), cloud backups (an object
that is written and read whole, by the export and restore of persistence), configuration, logging,
the SDKs, the dashboard pages and the documentation. `PROJECT.json` lists each with
the reason.

## 2. Modules

| Module | Models | Uses |
|---|---|---|
| `CacheOps` | the engine's map and order as values: lookup, overwrite, promotion by recency, frequency or both, insertion with eviction, removal | |
| `CacheEngine` | what the exported library promises: each call one atomic step, with the counters and the memory | `CacheOps` |
| `LinkedCache` | the same calls over `prev`/`next` pointers, one step per eviction and per swap; implements `CacheEngine` | `CacheOps`, `CacheEngine` by `INSTANCE` |
| `ExpiringStore` | what a client of the cache service may rely on: a bounded map with deadlines | |
| `CacheService` | the service's methods, timer callbacks and the export loop; implements `ExpiringStore` | `CacheOps` |
| `Persistence` | save and load around `CacheService`, with failures and crashes | `CacheService` |
| `LockService` | owners of locks stored in the cache of `Persistence` | `Persistence` |
| `CasClients` | clients that read, read and compare-and-swap one key | `CacheOps` |
| `WriteBehind` | the write-behind buffer, its flushes and its stop | |
| `SqliteAdapter` | the adapter's statements as operators on the rows of its two tables | |
| `TaggedStore` | what the interface `StorageAdapter` promises: a map of entries with tags that expire | |
| `DatabaseProxy` | the proxy, the query cache with both levels, the storage routes, and the external database; implements `TaggedStore` | `SqliteAdapter` |
| `Router` | the table of routes in the order of registration, and its search | |
| `Gateway` | a request from its arrival to the end of its handler: authentication, rate limits, routes, API keys | `Router` |
| `WebSockets` | sockets, their messages and the events they hear | `CacheService` |
| `RedisAdapter` | the byte stream, its parser, the pipeline and the commands, next to the sockets | `WebSockets` |
| `Membership` | each node's view of the cluster, joins, heartbeats, leaves, failure detection, and the messages of all of these | |
| `Election` | the bully election on that membership, with replication turned on and off; starts, crashes and shutdowns | `Membership` |
| `MC...` | the sets and functions of each TLC instance | the module named |
| `Folds_proofs` | lemmas on the library's folds: sums over finite sets, concatenations | |
| `..._proofs` | theorems and lemmas; those of `CasClients` in `CacheEngine_proofs`, of `Persistence`, `LockService`, `WebSockets` and `RedisAdapter` in `CacheService_proofs`, of `WriteBehind` in `DatabaseProxy_proofs` | the module named |

How state and actions correspond to the code:

* **CacheOps, CacheEngine.** `cache.entries` is the hash map (value, version, access
  count), `cache.order` the list from `head` to `tail`. `Insert` is the part of `put`
  after the lookup, its eviction included; `Overwrite` is the part of `put`, `casPut`
  and `incr` that replaces the value of an entry, its promotion included. A get that
  misses or a compare-and-swap that fails changes only counters nobody decides on,
  which are left out. Integers have `IntBits` bits; an `incr` that overflows traps in
  the safe build the repository makes, and the process restarts with an empty cache.
* **LinkedCache.** `SwapUp` is one iteration of the loop of `reorderByFrequency`,
  `EvictOne` one of the loop of `put`. A call in progress (`call`) excludes all others,
  as the engine's single caller does. The refinement shows that the pointer code
  does what `CacheEngine` says: the mapping gives, at
  each step of a call, the state in which the call will return, so its iterations are invisible.
* **CacheService.** `timers` is what the event loop holds, `ttlTimers` and `ttlExpiry`
  the service's two maps. A timer may fire at its time or later. An export runs
  a step per key because each step changes the order of the cache; nothing
  interleaves with it. `mget`, `mset` and the namespaced forms are sequences of
  modelled methods within one task and add no new state. `Pack` is what `compress` does to the payloads that it
  makes shorter, and `Unpack` what `get` makes of every value that begins with the marker (`cache-service.ts:58`): a client may
  send such a value itself (`validation.ts:28`), so `Payloads` and the domain of `Unpack` overlap.
* **Persistence.** `save` and `load` are synchronous and of several steps, between which
  only a crash (of bounded number) happens. A write or rename may fail.
* **LockService.** `claim` is the environment: the expiry that an owner was told. The
  methods of locks are the code's sequences of get, set, touch and delete in one
  task. The key of a lock, `__lock__` and a name, is valid for every route of the cache, so `Traffic` lets other clients
  write, touch, swap and delete it (`Writes`); whoever does voids the owner's claim (`Voided`), as nobody tells the owner.
  `acquire` takes any number for a time to live, `lease` remembers the number.
* **CasClients.** `seen` is the environment: what each client read last. `lapsed` is a history
  variable: the clients whose entry was deleted, expired, evicted or flushed since they read.
* **WriteBehind.** Writes are numbered in order of acceptance. `batch` and `current` are
  what a flush took out of `buffer`; `Succeeds`, `Fails` and `SleepEnds` are the
  continuations of the two awaits. A failure may be that of the answer, after
  the database executed the write.

* **SqliteAdapter, DatabaseProxy.** `db.kv` and `db.kv_tags` are the two tables; a deletion of rows takes
  their tags with it, as `ON DELETE CASCADE` does, and `Upsert` is the transaction of `set` and `mset`. A row that
  has expired stays until something touches, purges or overwrites it, and `Live` are the others. `l1` and
  `deadline` are the entry and the timer of a query in the cache service. `Query` runs to the call of the
  database and `Answers` from its result; `Executes` and `Fails` are the database. All else is one step, because
  the adapter is synchronous and its promises are resolved when they are returned. `torn` is history: the keys whose last write threw in the
  second level; `origin` too: whether a result came to the first level by a set, a promotion or a snapshot. `Restart` restores any snapshot of
  `Envelopes` or none, `Upload` (`POST /snapshot/upload`) writes one over what is there, and neither arms a timer. The storage routes work on ids of other namespaces than the query cache's.
* **Router, Gateway.** `Routes` is every registration of `app.ts` in its order, and `match` the first that fits. A request
  changes the buckets and then, in the same step, either is answered or waits for its body in `waiting`; `CreateKey`,
  `ConfigureLimit` and `Finish` are the rest of such a handler, with the key as it was let in. Times are kept as
  ages, so the clock never stops; what is older than every window and the purge is alike. `accepted`, `nsAccepted`, `changed` (how long ago the limit of a
  namespace changed or went; to set it again as it is changes nothing) and the field `by` of a key are history.
* **WebSockets, RedisAdapter.** `running` are the calls of the cache service that the handler in progress has
  still to make; nothing comes in between. `mirror` is a client that follows the events, `evicted` the keys gone without one and `uploaded` those restored without one: all are
  history, as are `unanswered`, `selected` and `sent` of the Redis client. `wire` is what TCP has not delivered, and `Data` delivers any
  first part of it. A command is the line with its count and then its words, and chunks end between these. `FullKey` maps a namespace
  and a name to the key of the cache: the code joins them with a character zero (`cache-service.ts:328`), so names in `Plain`, which have none, keep
  their full keys apart and others need not. Only the Redis connections, which check no key, send others.
* **Membership, Election.** `state[n][m]` and `role[n][m]` are the entry of `m` in the `nodes` map of
  `n`; a node that is not in the map, never met or left, is `unknown`. `replicas[n]` and `replicating[n]` are the list
  and the `enabled` flag of its replication service. `net[m][n]` holds requests and answers in the
  order they were sent; any of them may arrive next, or fail. `election[n]` is the election service:
  `asked` are the calls of `requestElection` that still await answers, `armed` the victory timers that run.
  The listeners of an event run within the step that emits it, as `emit` does. Time is not counted; instead history says what had to be slow.
  `late` counts what takes a message of seconds: a timer of `ELECTION_TIMEOUT` that runs out before a message that was under way when it was set (`older` remembers
  which those are), a request lost between two living nodes or given up, a living peer found silent, a check for a leader before the
  answer to a join. `races` counts what needs no more than an ordinary latency: a message that overtakes an older one, a timer or a check
  for a leader that runs while any other message but a heartbeat is under way to the node. `stops` counts crashes and shutdowns, `commands` the requests of
  operators to the routes `/replication/*`. `MaxEvents` bounds the four together. `byHand` marks a replica, or the flag, that an operator set last.

An operator marked `Wrong:` is a plausible error of the definition after it. No
specification uses one: they stand in for the definition to show that a property
fails when the code is wrong in that way.

## 3. Runs

| Run | Instance | Shows |
|---|---|---|
| `engine_arc` | 3 keys, 2 entries, 3 values, 5 accesses, 4 puts | map, order, memory and counters agree after any sequence of calls; `VersionNamesValue`; `OnlyTheTailIsEvicted` |
| `linked` | 3 keys, 2 entries, 3 values, 5 accesses, 3 puts | one list at every call boundary, every call ends, refinement of `CacheEngine` |
| `service` | 2 keys, 1 entry, 4 stored values of which one is compressed and may be sent as well, one-bit integers, clock 0..2 | `KnownKeys`, `NoFalseNegative`, `TimersMatch`, `ImplementsStore`, and liveness `ExpiredKeysGo` |
| `persistence` | 3 keys, 2 entries, 3 values, 1 crash | `ExportIsComplete`, `SavesTheContent`, `RestoreIsComplete`, `ServiceOK`, liveness `BusyEnds` |
| `locks` | 1 lock, 2 owners, other clients of the lock's key and of another, 3 leases (zero, one, and one above the maximum of two), clock 0..3 | `LeasesAreHonoured`, liveness `AutomaticRelease` |
| `cas` | 2 clients, 2 keys, 2 entries, 4 accesses, with deletes, evictions and flushes | `SeenIsCurrent`, `NoLostUpdate` |
| `write_behind` | 2 databases, buffer of 2, 1 retry, 4 writes | `WritesKeepTheirOrder`, `EveryWriteIsCounted`, liveness `WritesSettle` |
| `election` | 2 nodes of different priority, each the other's seed, 2 events among late messages, races, stops and commands | `ReplicasAreMembers`, `AtMostOneLeads`, `TermsNeverGoBack`, liveness `SettlesOnOneLeader` |
| `database` | 1 query key, 1 key of the storage routes, 1 connector in 2 configurations, 1 waiting client, 2 requests, 1 result that snapshots hold, clock 0..2 | `LevelsAgree`, `AgeIsBounded`, `ImplementsStore` |
| `gateway` | 1 address, 1 namespace with 2 possible limits, 2 API keys and the token, 9 requests, windows of 1 and 2 | `RateIsBounded`, `KeysComeFromAdmins`, liveness `RefusedClientsRecover` |
| `connections` | 1 socket, 1 Redis connection of 3 commands and 1 upload, 2 names in 2 databases of which two have the same full key, cache of 1 entry, clock 0..1 | `MirrorsFollowTheCache`, `PipelinesAreWhole`, `NamespacesStayApart` |

The type invariants of `LinkedCache`, `Persistence`, `LockService`, `DatabaseProxy` and `Gateway` are conjuncts of `WellLinked`, `ServiceOK`,
`LeasesAreHonoured`, `LevelsAgree` and `RateIsBounded`; those of the other modules are parts of the inductive invariants of the proofs.
One run shows where the code does not do what the repository says of it:

| Run | Statement | What happens |
|---|---|---|
| `gateway_routes` | `app.ts:569`: specific routes must come before parameterized ones | `POST /cache/warmup` (`app.ts:851`) is registered after `POST /cache/:key` (`:211`): a request to warm the cache up is taken for the write of the key `warmup`. `GET /cache/info` (`:888`) is likewise hidden by `GET /cache/:key` |

More configurations are kept for a reader to run. All but `election_ties` check one statement that the code
breaks, and give the shortest way to it:

| Configuration | Statement | What happens |
|---|---|---|
| `service_no_ttl.cfg`, `MCCacheService` | `configuration.html:53`: a default of 0 is no expiry | a set without a time to live keeps the timer of the value it replaces (`cache-service.ts:86`), which deletes the new value |
| `locks_forever.cfg`, `MCLockService` | `lock-service.ts:3`: automatic release | `acquire` checks no time to live (`app.ts:917`, `lock-service.ts:40`), and one of zero or less arms no timer (`cache-service.ts:86`): the lock is held for ever. With the changes that its comment names, a lock restored by `setRaw` from a snapshot is (`persistence-service.ts:118`) |
| `write_behind_stop.cfg`, `MCWriteBehind` | `write-behind-buffer.ts:235`: drain any remaining entries | during a flush, `stop` returns at once (`write-behind-buffer.ts:124`, `:236`) and the process exits with the batch and the buffer lost |
| `election_failover.cfg`, `MCElection` | `INSTALL.md:210`: automatic failover | the lower node asks the higher, which answers and dies before its victory: `electionInProgress` stays set, no timer runs (`election.ts:201`), and the node that is left never leads, not even when it finds the other dead |
| `election_split.cfg`, `MCElection` | `README.md:621`: a single leader | a node restarts with term zero and elects itself, racing with the answer to its join: its victory of term one is ignored by the leader of term two (`election.ts:130`), nobody elects again, and both lead for ever |
| `database_promotion.cfg`, `MCDatabaseProxy` | `EveryAgeIsBounded`: no result is served much beyond its time to live | an entry restored from a snapshot has no timer (`persistence-service.ts:118`), and is served for ever; so is one that is promoted (`query-cache.ts:81`), the default time to live of the cache service being 0 (`config.ts:25`) |
| `gateway_quota.cfg`, `MCGateway` | `RateSurvivesChanges`: twice the limit in a window, whoever changes it | the removal of a limit drops its buckets (`middleware.ts:251`), and the same limit set again starts a new quota |
| `redis_ambiguity.cfg`, `MCConnections` | `cache-service.ts:329`: there is no ambiguity | Redis keys are not validated (`server.ts:93`): the key `db1\0k` of database 0 is the key `k` of database 1 |
| `election_ties.cfg`, `MCElection` | the properties of `election`, with equal priorities, the default (`config.ts:77`) | passes, in four minutes: two nodes that elect at once both win, and the victory that arrives ends it |

Most properties say under which condition they hold, because the code breaks them otherwise:

* `NoLostUpdate` and `SeenIsCurrent` exclude a client whose entry was removed since it read. An entry
  written anew starts at version 1 again (`cache.zig:127`), so a swap with an old version may succeed
  over a value its client never read.
* `TimersMatch` lets a set without a time to live keep the timer of the value it replaces. `ImplementsStore` says that a
  set gives its value back but for a short one that begins with the marker of compression: a client that sends one gets it back decoded.
* `LeasesAreHonoured` is of `LockSpec`: no administrator, no restart, and a cache that is never full; and a claim ends when another client writes
  the entry of the lock through the routes of the cache, which do not know locks. An eviction, a flush, a forced release or such a write
  frees it, and a second owner gets it. `AutomaticRelease` is of locks asked for a positive time.
* `AtMostOneLeads` is of the time before the first message that is late and the first process that ends. Two timers that run out within one latency, which equal
  priorities make likely, or a check for a leader that runs while a victory is under way, do give two leaders: then the property asks that a victory is
  under way between them that the receiver will accept. With a crash two nodes may lead at once, and no victory under way:
  when the new leader declares the old one dead it still has it as a leader and starts an
  election against itself (`election.ts:39`), and a node that joins takes the term of the cluster into its
  membership only (`membership.ts:309`), so that its own victory is of an older term and ignored.
  `SettlesOnOneLeader` shows that a later term ends it. It excepts a stop together with a race, after which two nodes may lead for ever
  (`election_split.cfg`), and a stop that leaves a node waiting for a victory (`election_failover.cfg`).
* `ReplicasAreMembers` excepts what an operator registered (`POST /replication/replicas` takes any id), and `AtMostOneLeads` and
  `SettlesOnOneLeader` a replication switched by hand.
* `LevelsAgree` excepts a key whose last write reached the first level and threw in the second, and an entry that a snapshot restored, which may be older than the row.
  `AgeIsBounded` gives a promoted result the default time to live of the cache service on top of its own, since its promotion starts that anew, if there is one,
  and says nothing of a restored one.
* `RateIsBounded` is of windows no longer than the 120 s after which buckets are purged (`middleware.ts`), and, in a namespace, of those in which the limit
  stood as it is. Windows that start with their first request allow twice the limit around their end, which is the bound.
* `KeysComeFromAdmins` lets a key that was revoked or expired while its request waited create another: the handler does not look again.
* `MirrorsFollowTheCache` excepts what an upload wrote, which publishes no event (`app.ts:338`), and evictions; `NamespacesStayApart` commands
  whose key has a character zero in it.

**Bounds.** `MaxAccess` bounds the accesses of one entry, hence its versions, `MaxPuts` the
counted puts, `MaxTime` the clock, `MaxCrashes` the crashes, `MaxWrites` the writes
accepted. Three keys in two entries give an eviction of each position and a list
of head, tail and none between; five accesses make an entry overtake another by
frequency, tie with it and be overtaken again. One-bit integers are -1 and 0, so both
overflows happen. In `service` the bits of one key are among those of the other, so the
filter has false positives, and one entry for two keys makes each write of a new key
evict. In `persistence` two entries and three keys let the reads of an export reorder what it walks over. In `locks` the leases
include zero and one above the cap; the other key, which is as the lock's, gives traffic besides. In
`write_behind` a buffer of two fills during a flush and between flushes, and two
databases make the batch's groups reorder the writes. `Wide` is empty in all runs: a value
too long for the bridge's read buffer (`cache-bridge.ts:64`) is answered as missing, and
exports leave it out and forget its key; the model has it and no run asks it. Likewise `Hash` gives
every key of a run some bits: the key of length zero, which the filter ignores
(`exports.zig:217`, `:224`) and the HTTP routes refuse, is in the model and not in the
runs. In `election` two events
give two crashes, a crash and a restart with a race or a late message, two races, a command of an operator before or after any of them; both nodes
may start at any time, join through each other at once and crash at any step of an election. A node
has one heartbeat under way to a peer at a time, and a process that ended starts again once nothing to or from it is under
way. `MaxTerm` bounds nothing: `TypeOK`, which `election_ties.cfg` checks, says that two events never bring more than six terms.
A third node is out of reach of a full search.

In `database` the two requests are a query that names the connector's own tag again, which makes the second level throw, and a
mutation that is kept for ever; the two configurations of the connector are a plain one and a read-only one with a
limit. With one connector re-registered under either, a clock of two and all times to live of one, a result is promoted at the last moment
of its row, and one waiting client gives a late answer over every change of the cache. The result that snapshots hold is of version 0 and time 0, older than any row but the first. Every key has its own row, timer and entry, so a
second key adds only what tags make two rows do together: `DbMSet` and `DbDelete` have it in `Ids`. In `gateway` the key `k1` or `k2` may be any of administrator, expiring and revoked; the one
slot holds a request over all that happens to its key. In `connections` the cache of one entry makes each set of the other database
evict, `RateMax` 1 makes a second message in the same instant be refused, the name `sly` in database 0 has the full key of `k` in database 1, and three commands with `SELECT` between them are cut in every way.
`MaxAccess` is beyond what three commands and two messages reach, and `IntBits` 2 gives the integers -2..1.

`CHECK_DEADLOCK FALSE` is set for `WriteBehind`, whose process exits, for `Election`, where all processes may have ended, with no restart owed, and
for `database` and `connections`, whose clocks, versions and commands are bounded.

**Fairness.** Timers of the event loop run after every task, so a due timer cannot
be passed over for ever: strong fairness for each key's timer, because a scan in
progress disables it for a moment. Loops of an export, a save, a load and the linked
list are single tasks that only the death of the process stops: weak fairness.
The flush interval and the delays between retries are timers, and a database call
ends with an answer or an error: weak fairness of each. In `Election` requests are answered or time out,
and the intervals of heartbeats, failure detection and health checks go on: weak fairness of
each, in time: the step raises neither `late` nor `races`, so a step that may only happen late or in a race need not happen. Nothing makes a process start, and
nothing forces a message to be late or to be overtaken. In `Gateway` the clock goes on and the two purge intervals fire: weak fairness of `Tick`, `Purge` and
`PurgeNamespaces`, which are always enabled. No client is assumed to do
anything.

## 4. Proofs

All theorems hold for every set of keys, values and clients, every capacity, policy, integer
width and buffer size that satisfies the named assumptions of the modules.

* `Folds_proofs`: what `SumFunctionOnSet`, `SumFunction` and `FlattenSeq` of the community modules compute. Their definitions are
  recursive and the library's induction theorems take an operator, so each argument is by a least counterexample: `WFMin` gives a set of numbers, or of
  finite subsets by their cardinality, a least member.
* `CacheOps_proofs`: lemmas on the operators. `MoveUp`, `Promote` and `Replace` permute the
  order; `Unlink` and `RemoveAt` remove one key and leave the others' order; `Insert` adds
  one within the capacity; `Overwrite` and `Read` change one entry's version and count as the
  code does; each changes the bytes of the entries by what it adds and removes.
* `CacheEngine_proofs`: `TypeCorrect`, `EngineConsistent`, `EngineAccounts` from the inductive
  invariant `IInv == TypeOK /\ Consistent /\ PutsAccountForEntries`. The accounting needs
  `Consistent` (a delete lowers `current_size`, which must have counted the key), and
  `Consistent` needs the order to be a permutation of the map, which is where the lemmas come
  in. `VersionsNameValues` and `EvictionsTakeTheTail` are action properties proved from the
  same invariant. `MemoryStaysExact` adds the sum of the lengths, of which a put may change two entries: the one it evicts
  and the one it writes. Of the clients, `SeenStaysCurrent` is inductive with types, and gives `NoUpdateIsLost`: a
  swap compares versions, and the invariant turns equal versions into equal values. Removals
  are steps of the specification; they make clients lapse, and the invariant speaks of the others.
* `LinkedCache_proofs`: the inductive invariant says that there is a sequence of the keys whose neighbours are the pointers, `head` and `tail` its
  ends, and, of a call in progress, what its loop has done so far: that a swap moves one key towards the head, that an eviction leaves room. One lemma for each
  pointer operation (`DetachChains`, `PushFrontChains`, `SwapChains`) says what it does to that sequence, with `NULL` at either end of it so that head and tail need no case of their own, and one for each action that the invariant holds after it.
  `ListStaysLinked` follows. `LinkedImplementsEngine` maps a state to the one in which the call will return: the steps of a loop
  leave it alone, the first step of a call is the step of `CacheEngine`.

* `Election_proofs`: `IInv` adds to `Typed` that no node sends to itself (`NetOK`) and
  `ReplicasAreMembers`. Each action keeps it (`Kept`) and, where a node runs before and after, its
  term: `StartElection` adds one, requests and victories are compared before they are taken. From it
  `RegisteredAreMembers` and `TermsGrow`, for any number of nodes, seeds, priorities, operators and faults. It is
  `Typed` and not `TypeOK` that is inductive: the bound of the terms depends on the faults.
  `OneLeads` proves `AtMostOneLeads` for two nodes that are each other's seed (`MutualSeeds`), of any priorities, equal ones too, and seeds listed
  any number of times. It has two invariants. `DInv == Calm => Duo` holds until the first race too (`Calm`) and says of a node
  that its role and its election service agree, and that it takes part in one election at most (`OnceOK`); of the pair how far they know each other (`MeetOK`); what each
  message under way between them says is so (`MeansOK`: who sent a victory leads, who asks others to take over has no timer running); and that a leader's peer
  follows it or will before it hears anything else of it (`LeadOK`). That is why the peer starts no election of its own without a race: when it checks, or its timer runs
  out, nothing is under way to it, so it follows already. `RInv`, for the time after, gives up order and asks less: every leader's victory is under way, or its peer
  has a newer term, or has stopped electing in that term without leading (`Told`); or the leader won while it was alone, and all that its peer will hear is that
  it leads (`Unrivalled`, of the rosters that welcome a node that joins); and a node whose replication is still on while it elects again (`RetreatTold`) is one
  term ahead of such a victory, or no further than its peer (`Ahead`). Two that lead have each told the other: the one of the older term, or of the same, will accept, so
  a victory is under way. There is one lemma for each action in each. The hypothesis cannot be dropped: of three nodes two may lead (section 5), and of two
  nodes one without seeds never meets a peer that started before it and gave up joining.

* `DatabaseProxy_proofs`: of the buffer, `WritesKeepTheirOrder` is not inductive. `Ordered` adds that what a
  database executed is not after what is in flight or waits for it, that the current write comes
  before those of its database in the batch, and that all in flight come before the buffer.
  `OrderIsKept` and `WritesAreCounted` follow. Of the proxy, `IInv` is `CacheOK` and the types of the rest. `CacheOK` adds to `LevelsAgree` that a row expires when the result
  in it does (`TablesOK`), without which a promotion could be of any age, and that no timer is overdue and one runs for each result with a time
  to live (`LevelOK`), which is what bounds the age in the first level. The results that a
  snapshot restored are outside of both (`origin`): they may be older than the row, and have no timer. `LevelsStayTogether` and `AgeStaysBounded` follow, for any default time to live;
  when it is zero the second says nothing of promoted results, as `database_promotion.cfg` shows it must not.
  `AdapterImplementsStore` maps the tables to `TaggedStore`: every step writes rows (`Upsert`), deletes some (`Delete`), or leaves
  them alone (`StepOfTables`), and three lemmas say what each of these, and the clock, does to the entries that are live. Its one
  hypothesis, `NullIsNoEntry`, is that the value standing for an absent entry is not an entry.
* `CacheService_proofs`: `IInv` has a part for each of the four things that every method has to keep together: the engine (`EngineOK`, from the
  lemmas of `CacheOps_proofs`), the known keys and the filter (`KeysOK`), the timers (`TTLOK`) and an export in progress (`ScanOK`: what the loop
  has visited is collected as it is cached, which its own reads keep although they promote). `KnownKeys` and `ExportIsComplete` need
  that no value is too long for the bridge (`Wide = {}`): such a value is taken for a missing one, and its key is forgotten. `NoFalseNegative` needs that
  every key has bits in the filter, which the key of length zero has not. Under both, `ServiceImplementsStore` maps the service to `ExpiringStore`: what `get`
  answers is the content of the engine decoded (`AnswersAreContents`), also of values with the marker that clients sent, a write loses one other key at most and only when the cache is full
  (`PutContents`; `CachedCount` makes the length of the order the number of keys), and each step is one of the map's.
  What is built on the service is proved from its invariant. `PInv` adds what each step of a save or a load relies on (`StepOK`):
  that what was exported is still the content when it is written and renamed, and that what was loaded is the part of the snapshot no longer to be
  loaded. A snapshot fits into the cache (`IsSnapshot`), so that no entry put back evicts another. `SnapshotsAreWhole`, `RestoresAreComplete` and
  `ServiceSurvives` follow. `LInv` adds that a claim that has not run out is the entry's own expiry (`LeaseOK`), so that the timer that ends the entry is due
  when the claim ends and not before; who else writes the entry ends the claim, so there is nothing to keep. `LeasesHold` follows for a cache with room for all keys (`NeverFull`) that finds every key (`AlwaysFound`); without room, an
  eviction frees a lock. `RInv` is of the sockets and the Redis connections: the types of both, that the commands without a reply are those that are parsed and
  then those of the bytes that are buffered or under way (`PipesOK`), that the calls still to be made belong to the database selected when the
  command came (`CallsOK`), and that a mirror knows what is cached and was neither evicted nor uploaded (`MirrorsOK`).
  `DatabasesStayApart` uses that names without a character zero have full keys of their own (`FullKeyAssumption`). `MirrorsFollow`, `PipelinesStayWhole` and `DatabasesStayApart` follow for any
  number of sockets, connections and commands that are what the code reads (`MessagesAssumption`, `CommandsAssumption`).
  The parser is a recursive function, and `ParseReads` proves of it, by a least counterexample over the length of the stream, that it takes the commands that are whole and no more.
* `Gateway_proofs`: the rate is bounded because of `BucketOK`, a relation between a bucket and the history of its address: a bucket has counted all that was let through
  since its window began, this is no more than the limit, and neither is the rest of an interval that ends now. The lemmas say that a request counted or refused, a purge,
  and a step of the clock keep it, and, of a namespace, that what was accepted before its limit changed counts no more once an interval has passed without a change (`changed`). They rest on sums over intervals of ages
  (`WithinCounts`, `WithinShifts`, `WithinGrows`). `RateStaysBounded` follows for any limits, windows and addresses, of a namespace for the intervals in which its limit stood. For `KeysStayFromAdmins` the invariant adds that a request
  waiting to create a key was let in with the token or with a key that may administrate, which holds when it is let in because every route below `/admin` is one of `AdminRoutes`
  (`RoutesSplit`, from the first segment of every other route), and stays because a key's permissions never change. Both assume of the requests only that
  their arguments are of the kind that the handlers read (`RequestsAssumption`).

Model-checked only: liveness (`CallsReturn`, `ExpiredKeysGo`, `BusyEnds`, `AutomaticRelease`,
`WritesSettle`, `SettlesOnOneLeader`, `RefusedClientsRecover`), which TLAPS does not do under fairness. Every invariant and every
action property of the passing runs, and each refinement, is the statement of a theorem.

## 5. Not modelled, and observations

* Allocation failures: `put` frees the old value before it duplicates the new one
  (`cache.zig:107`). Destroying a handle while it is used. Jumps of the wall clock.
* Under the frequency policy a new entry goes in at the head (`cache.zig:131`), so the tail need
  not be the least frequently used entry that the comment of `tail` (`cache.zig:70`) promises.
* The order of a scan of the known keys is arbitrary in the model.
* Three nodes that start at the same time may form two groups: a join ends at the first seed that answers and is
  never tried again (`membership.ts:317`), and heartbeats carry no roster. Two of them then
  lead. The run has two nodes, which are each other's seed, and does not show this.
* Nodes that a roster brings in cause no `node_joined` event (`membership.ts:289`), so a leader has no
  replica for them until they join through it: a heartbeat adds
  none for a node that is known. `ReplicasAreMembers` is therefore an inclusion and not an equality.
* A living node found dead stays dead in the other's view, and its heartbeats are counted but do not
  recover it (`membership.ts:171`). The node that buried it sends it none.
* `election_vote` has no sender, and nothing calls `forwardWrite`, `replicateSet`, `replicateDelete` and `replicateClear`;
  `README.md:621` says that a single leader handles all writes.
* The handlers of the routes that call the cache, the locks or the storage are the actions of those modules; `Gateway`
  lets them wait and end. Of the routes `/replication/*`, `POST` and `DELETE /replication/replicas`, `/replication/enable` and
  `/replication/disable` are `PostReplica`, `DeleteReplica` and `SetEnabled`; replicas whose id is no node, and the flags of single replicas
  (`/replication/replicas/:id/enable`), are left out. GraphQL and the cluster's endpoints are dispatched outside the table of routes.
* The empty command (`*0`), which gets no reply, is not modelled.

Seen while reading, and in part shown by the models:

* Query cache. A hit of the second level is answered with the whole stored envelope (`query-cache.ts:79`), where one of the first level
  is answered with the data. A clear of the query cache or of the store, and a deletion by tags in the store, leave the first level as it is.
  `invalidateByTags` deletes at most 100 keys from the first level, and none whose row has expired. A tag named twice
  makes the second level throw after the first has been set. A write through the storage routes may name the query cache's own namespace,
  and one through `/cache` its keys in the first level; neither is modelled.
* Proxy. A result is cached even if the key was invalidated while the database worked (`proxy.ts:381`), and a mutation is answered from
  the cache, and cached, like a query (`proxy.ts:352`): no freshness is promised within the time to live. A read-only connector refuses a mutation after it has
  been executed (`proxy.ts:385`), and not at all with the write-behind buffer. A connector registered anew under a name serves the results of the old one.
  The hash of a query has 32 bits, so two queries may share an entry. A time to live of 0 keeps a row for ever.
* Shutdown closes the adapter before it stops the write-behind buffer (`app.ts:1518`), while requests are still served.
* Gateway. The namespace of a limit is taken from the query string only; the comment at `app.ts:1358` adds "or body". The comment of the cluster's
  endpoints says that they take no authentication (`app.ts:1373`), which comes before them. With API keys and no token nobody can create the first key. Only the routes under `/admin`
  check a permission. A window above 120 s is cut by the purge.
* WebSockets. An eviction publishes no event, nor does the upload of a snapshot. A new socket is told that it hears `cache`, and hears `cache-events`. `mset` does not validate the time to live, nor `mget` the keys.
* Redis. `FLUSHDB` clears every database. An inline command, or an array with an element that is no bulk string, stays in the buffer and blocks the
  connection for ever (`parser.ts:43`, `:79`). The rest of a chunk still runs after a `QUIT` (`server.ts:242`). Keys are not validated.
* Locks are entries of the cache: an eviction, a flush, a forced release or another client's `DELETE /cache/__lock__name` frees one that its owner still holds.

## 6. Plan

1. Run-length encoding as a pure algorithm, checked against its decoder over bounded inputs.
2. Three nodes: the joins that leave two groups, with the timers of the election abstracted.
