--------------------------- MODULE DatabaseProxy ---------------------------
(***************************************************************************)
(* The database proxy (db/proxy.ts) in front of the query cache            *)
(* (db/query-cache.ts), whose first level is the cache service and whose   *)
(* second is the SQLite adapter, with the storage routes of the server.    *)
(* Only the call of the external database lets other requests in: the      *)
(* adapter's promises are resolved when they are returned, and their       *)
(* continuations run before the event loop takes its next task.            *)
(***************************************************************************)
EXTENDS SqliteAdapter

CONSTANTS
    QueryKeys,     \* the keys of the query cache
    PlainKeys,     \* the ids that the storage routes write
    Clients,       \* the requests that may wait for the database at a time
    Connectors,    \* the names of the connectors
    Configs,       \* how a connector is registered: [readOnly, maxCacheTTL, defaultTags]
    Requests,      \* [key, mutation, skipCache, ttl, tags]
    Rows,          \* what a storage route writes: [value, ttl, tags]
    TagLists,      \* the tags that an invalidation names
    Envelopes,     \* the entries that a snapshot may hold, whenever it was saved
    DefaultTTL,    \* of the cache service
    QueryTTL,      \* of the query cache, when none is passed to it
    ProxyTTL,      \* when neither request nor connector has a time to live
    WriteBehind,   \* the write-behind buffer is enabled
    MaxVersion,    \* bound on the changes of the external database
    MaxTime        \* bound on the clock

ASSUME KeysAssumption ==
    QueryKeys \cup PlainKeys = Ids /\ QueryKeys \cap PlainKeys = {}
ASSUME TTLAssumption == DefaultTTL \in Nat /\ QueryTTL \in Nat /\ ProxyTTL \in Nat
ASSUME FlagAssumption == WriteBehind \in BOOLEAN
ASSUME BoundAssumption == MaxVersion \in Nat /\ MaxTime \in Nat
ASSUME InputAssumption ==
    /\ \A config \in Configs : config.maxCacheTTL \in Int \cup {Null}
    /\ \A r \in Requests :
          r.key \in QueryKeys /\ r.ttl \in Int \cup {Null} /\ r.tags \in Seq(Tags)
    /\ \A envelope \in Envelopes : envelope # Null /\ envelope.ttl \in Int
    /\ \A row \in Rows : row.ttl \in Int \cup {Null} /\ row.tags \in Seq(Tags)

VARIABLES
    db,          \* the SQLite file
    closed,      \* the adapter was closed by a shutdown
    l1,          \* the cache service's entry of each query key
    deadline,    \* when its timer expires it
    connectors,
    version,     \* the changes that the external database has seen
    pending,     \* the query for which each client waits
    torn,        \* history: the keys whose last write reached the first level only
    origin,      \* history: how each entry came to the first level
    now

memory == <<l1, deadline, origin>>
vars == <<db, closed, memory, connectors, version, pending, torn, now>>

Origins == {"set", "promoted", "restored"}

ASSUME OriginsAssumption == Null \notin Origins

Asking == [config : Configs, request : Requests, data : 0..MaxVersion \cup {Null}]

TypeOK ==
    /\ Stored(db) \subseteq Ids
    /\ References(db)
    /\ closed \in BOOLEAN
    /\ deadline \in [QueryKeys -> Nat \cup {Null}]
    /\ origin \in [QueryKeys -> Origins \cup {Null}]
    /\ \A k \in QueryKeys : origin[k] = Null => l1[k] = Null
    /\ \A k \in QueryKeys :
          origin[k] \in {"set", "promoted"} => l1[k].storedAt <= now
    /\ connectors \in [Connectors -> Configs \cup {Null}]
    /\ version \in 0..MaxVersion
    /\ pending \in [Clients -> Asking \cup {Null}]

Init ==
    /\ db = NoRows /\ closed = FALSE
    /\ l1 = [k \in QueryKeys |-> Null] /\ deadline = [k \in QueryKeys |-> Null]
    /\ origin = [k \in QueryKeys |-> Null]
    /\ connectors = [n \in Connectors |-> Null]
    /\ version = 0
    /\ pending = [c \in Clients |-> Null]
    /\ torn = {}
    /\ now = 0

-----------------------------------------------------------------------------
(* The cache service, as the query cache calls it.                         *)

\* A time to live that is not positive leaves the timer that is armed, be it
\* of an entry that was evicted.
MemSet(k, envelope, ttl, from) ==
    LET expires == ExpiresAt(IF ttl = Null THEN DefaultTTL ELSE ttl, now) IN
    /\ l1' = [l1 EXCEPT ![k] = envelope]
    /\ deadline' = [deadline EXCEPT ![k] = IF expires = Null THEN @ ELSE expires]
    /\ origin' = [origin EXCEPT ![k] = from]

MemDelete(S) ==
    /\ l1' = [k \in QueryKeys |-> IF k \in S THEN Null ELSE l1[k]]
    /\ deadline' = [k \in QueryKeys |-> IF k \in S THEN Null ELSE deadline[k]]
    /\ origin' = [k \in QueryKeys |-> IF k \in S THEN Null ELSE origin[k]]

\* The engine evicts an entry to make room for another, and tells nobody.
Evict(k) ==
    /\ l1[k] # Null
    /\ l1' = [l1 EXCEPT ![k] = Null]
    /\ origin' = [origin EXCEPT ![k] = Null]
    /\ UNCHANGED <<db, closed, deadline, connectors, version, pending, torn, now>>

Expire(k) ==
    /\ deadline[k] # Null /\ deadline[k] <= now
    /\ MemDelete({k})
    /\ UNCHANGED <<db, closed, connectors, version, pending, torn, now>>

\* POST /flush empties the cache service, and not the adapter.
Flush ==
    /\ MemDelete(QueryKeys)
    /\ UNCHANGED <<db, closed, connectors, version, pending, torn, now>>

-----------------------------------------------------------------------------
(* The query cache.                                                        *)

Hit(k) == l1[k] # Null \/ (~closed /\ k \in Live(db, now))

\* get, in either level: a hit in the second is promoted to the first, for the
\* cache service's own time to live.  A row that has expired is deleted.
Lookup(k) ==
    IF l1[k] # Null \/ closed
    THEN UNCHANGED <<db, memory, torn>>
    ELSE /\ db' = Touched(db, {k}, now)
         /\ IF k \in Live(db, now)
            THEN MemSet(k, db.kv[k].value, Null, "promoted") /\ torn' = torn \ {k}
            ELSE UNCHANGED <<memory, torn>>

Envelope(data, ttl) ==
    [data |-> data, storedAt |-> now, ttl |-> ttl]

\* Wrong: the second level keeps the result for ever.
SetSecondForever(k, data, ttl, tags) ==
    LET envelope == Envelope(data, ttl)
        rows == [id \in {k} |-> [value |-> envelope, ttl |-> Null, tags |-> tags]]
    IN /\ MemSet(k, envelope, IF ttl > 0 THEN ttl ELSE Null, "set")
       /\ IF ~closed /\ Commits(rows)
          THEN db' = Upsert(db, rows, now) /\ torn' = torn \ {k}
          ELSE UNCHANGED db /\ torn' = torn \cup {k}

\* set: the first level, and then the second, which may throw.
SetBoth(k, data, ttl, tags) ==
    LET envelope == Envelope(data, ttl)
        rows == [id \in {k} |-> [value |-> envelope, ttl |-> ttl, tags |-> tags]]
    IN /\ MemSet(k, envelope, IF ttl > 0 THEN ttl ELSE Null, "set")
       /\ IF ~closed /\ Commits(rows)
          THEN db' = Upsert(db, rows, now) /\ torn' = torn \ {k}
          ELSE UNCHANGED db /\ torn' = torn \cup {k}

\* invalidateByTags: the keys that the adapter's query finds are deleted from
\* the first level, all that have a tag from the second.
InvalidateByTags(tags) ==
    /\ tags # {} /\ ~closed
    /\ \E R \in QueryResults(db, QueryKeys, tags, now) : MemDelete(R)
    /\ db' = DeleteByTags(db, QueryKeys, tags)
    /\ UNCHANGED <<closed, connectors, version, pending, torn, now>>

\* invalidate, of one key: the first level, even if the second throws.
Invalidate(k) ==
    /\ MemDelete({k})
    /\ db' = IF closed THEN db ELSE Delete(db, {k})
    /\ UNCHANGED <<closed, connectors, version, pending, torn, now>>

\* GET /query-cache/:key and POST /query-cache.
ReadCache(k) ==
    /\ Lookup(k)
    /\ UNCHANGED <<closed, connectors, version, pending, now>>

WriteCache(r) ==
    /\ SetBoth(r.key, version, IF r.ttl = Null THEN QueryTTL ELSE r.ttl, r.tags)
    /\ UNCHANGED <<closed, connectors, version, pending, now>>

-----------------------------------------------------------------------------
(* The proxy.                                                              *)

Register(name, config) ==
    /\ connectors[name] = Null
    /\ connectors' = [connectors EXCEPT ![name] = config]
    /\ UNCHANGED <<db, closed, memory, version, pending, torn, now>>

Unregister(name) ==
    /\ connectors[name] # Null
    /\ connectors' = [connectors EXCEPT ![name] = Null]
    /\ UNCHANGED <<db, closed, memory, version, pending, torn, now>>

\* query, up to the call of the database: the cache answers whatever the query
\* is; a mutation goes to the write-behind buffer if there is one.  The
\* connector is the one found now, whatever becomes of its name.
Query(c, name, r) ==
    /\ pending[c] = Null /\ connectors[name] # Null
    /\ IF r.skipCache THEN UNCHANGED <<db, memory, torn>> ELSE Lookup(r.key)
    /\ pending' =
         IF (~r.skipCache /\ (Hit(r.key) \/ closed)) \/ (WriteBehind /\ r.mutation)
         THEN pending
         ELSE [pending EXCEPT ![c] =
                 [config |-> connectors[name], request |-> r, data |-> Null]]
    /\ UNCHANGED <<closed, connectors, version, now>>

\* The external database executes the query: what it answers is its content
\* of that moment.
Executes(c) ==
    /\ pending[c] # Null /\ pending[c].data = Null
    /\ pending[c].request.mutation => version < MaxVersion
    /\ version' = IF pending[c].request.mutation THEN version + 1 ELSE version
    /\ pending' = [pending EXCEPT ![c].data = version']
    /\ UNCHANGED <<db, closed, memory, connectors, torn, now>>

Least(ttl, limit) == IF limit # Null /\ limit < ttl THEN limit ELSE ttl

CachedTTL(config, r) ==
    IF r.ttl # Null THEN Least(r.ttl, config.maxCacheTTL)
    ELSE IF config.maxCacheTTL # Null THEN config.maxCacheTTL ELSE ProxyTTL

\* The rest of query: a mutation through a read-only connector is refused
\* after its execution; a result is cached, whatever the query was.
Answers(c) ==
    /\ pending[c] # Null /\ pending[c].data # Null
    /\ LET config == pending[c].config
           r == pending[c].request
       IN IF r.skipCache \/ (config.readOnly /\ r.mutation)
          THEN UNCHANGED <<db, memory, torn>>
          ELSE SetBoth(r.key, pending[c].data, CachedTTL(config, r),
                       config.defaultTags \o r.tags)
    /\ pending' = [pending EXCEPT ![c] = Null]
    /\ UNCHANGED <<closed, connectors, version, now>>

\* The call fails, before or after the database has executed it.
Fails(c) ==
    /\ pending[c] # Null
    /\ pending' = [pending EXCEPT ![c] = Null]
    /\ UNCHANGED <<db, closed, memory, connectors, version, torn, now>>

\* An application that changes the database by itself.
ChangedElsewhere ==
    /\ version < MaxVersion
    /\ version' = version + 1
    /\ UNCHANGED <<db, closed, memory, connectors, pending, torn, now>>

-----------------------------------------------------------------------------
(* The storage routes, on ids of other namespaces than the query cache's;  *)
(* without a namespace an operation is on all of them.                     *)

Storage(db1) ==
    /\ ~closed
    /\ db' = db1
    /\ UNCHANGED <<closed, memory, connectors, version, pending, torn, now>>

DbSet(id, row) ==
    LET rows == [x \in {id} |-> row] IN Commits(rows) /\ Storage(Upsert(db, rows, now))

\* A failed transaction leaves nothing of any of its entries.
DbMSet(rows) == Commits(rows) /\ Storage(Upsert(db, rows, now))

\* GET /db/:key and mget.
DbGet(S) ==
    /\ S \cap (Stored(db) \ Live(db, now)) # {}
    /\ Storage(Touched(db, S, now))

\* DELETE /db/:key and mdelete.
DbDelete(S) == S \cap Stored(db) # {} /\ Storage(Delete(db, S))

\* One namespace or all of them; the query cache's has a route of its own, and
\* its first level keeps what it holds.
DbClear(S) == S \cap Stored(db) # {} /\ Storage(Delete(db, S))

DbDeleteByTags(S, tags) == Storage(DeleteByTags(db, S, tags))

\* Of the interval, or of POST /db-purge.
Purge == Storage(PurgeExpired(db, now))

\* A shutdown closes the adapter while requests are still served.
Close ==
    /\ closed' = TRUE
    /\ UNCHANGED <<db, memory, connectors, version, pending, torn, now>>

\* What a snapshot holds of the query cache; there may be none.
Snapshots == UNION {[S -> Envelopes] : S \in SUBSET QueryKeys}

\* setRaw of the entries of a snapshot that a client uploads, into whatever is
\* there: no timer is armed, and one that is armed stays so.
Upload(snapshot) ==
    /\ l1' = [k \in QueryKeys |-> IF k \in DOMAIN snapshot THEN snapshot[k] ELSE l1[k]]
    /\ origin' = [k \in QueryKeys |-> IF k \in DOMAIN snapshot THEN "restored"
                                      ELSE origin[k]]
    /\ UNCHANGED <<db, closed, deadline, connectors, version, pending, torn, now>>

\* A crash or the end of the shutdown, and a new process, which restores the
\* snapshot on disk, and arms no timer.
Restart(snapshot) ==
    /\ l1' = [k \in QueryKeys |-> IF k \in DOMAIN snapshot THEN snapshot[k] ELSE Null]
    /\ deadline' = [k \in QueryKeys |-> Null]
    /\ origin' = [k \in QueryKeys |-> IF k \in DOMAIN snapshot THEN "restored" ELSE Null]
    /\ closed' = FALSE
    /\ connectors' = [n \in Connectors |-> Null]
    /\ pending' = [c \in Clients |-> Null]
    /\ torn' = {}
    /\ UNCHANGED <<db, version, now>>

\* The event loop gets to the timers that are due before the clock moves on.
Tick ==
    /\ now < MaxTime
    /\ \A k \in QueryKeys : deadline[k] # Null => deadline[k] > now
    /\ now' = now + 1
    /\ UNCHANGED <<db, closed, memory, connectors, version, pending, torn>>

Next ==
    \/ \E k \in QueryKeys : Evict(k) \/ Expire(k) \/ Invalidate(k) \/ ReadCache(k)
    \/ \E tags \in TagLists : InvalidateByTags(tags)
    \/ \E r \in Requests : WriteCache(r)
    \/ \E n \in Connectors : Unregister(n) \/ \E config \in Configs : Register(n, config)
    \/ \E c \in Clients :
          \/ \E n \in Connectors, r \in Requests : Query(c, n, r)
          \/ Executes(c) \/ Answers(c) \/ Fails(c)
    \/ ChangedElsewhere
    \/ \E id \in PlainKeys, row \in Rows : DbSet(id, row)
    \/ \E S \in SUBSET PlainKeys : \E rows \in [S -> Rows] : DbMSet(rows)
    \/ \E S \in SUBSET PlainKeys : DbGet(S) \/ DbDelete(S)
    \/ \E S \in {QueryKeys, PlainKeys, Ids} : DbClear(S)
    \/ \E S \in {PlainKeys, Ids}, tags \in TagLists : DbDeleteByTags(S, tags)
    \/ \E snapshot \in Snapshots : Upload(snapshot) \/ Restart(snapshot)
    \/ Purge \/ Flush \/ Close \/ Tick

Spec == Init /\ [][Next]_vars

-----------------------------------------------------------------------------
(* Properties.                                                             *)

\* The two levels of the query cache never hold different results for a key,
\* so that an eviction, an expiry or a promotion brings no older result back,
\* but for a key whose last write failed in the second level, and for an entry
\* of the first that was restored from a snapshot, which may be older than the
\* row, until the key is written or removed.
LevelsAgree ==
    /\ TypeOK
    /\ \A k \in QueryKeys \cap Live(db, now) :
          l1[k] \in {Null, db.kv[k].value} \/ k \in torn \/ origin[k] = "restored"

\* A result with a time to live is not served from the first level for longer
\* than that, or, if it was promoted from the second, which happens at the
\* latest when its row expires, for longer than the cache service's own time
\* to live besides: however it was evicted, flushed, promoted or written anew.
\* A timer may be due.  It is served without end if it was restored from a
\* snapshot, or promoted by a cache service without a time to live of its own,
\* which is the default.
AgeIsBounded ==
    \A k \in QueryKeys :
        LET Within(extra) == now < l1[k].storedAt + l1[k].ttl + extra \/ deadline[k] = now
        IN  l1[k] # Null /\ l1[k].ttl > 0 =>
                /\ origin[k] = "set" => Within(0)
                /\ origin[k] = "promoted" /\ DefaultTTL > 0 => Within(DefaultTTL)

\* The same of every result with a time to live, for as long as it is served: it
\* fails for those.
EveryAgeIsBounded ==
    \A k \in QueryKeys :
        l1[k] # Null /\ l1[k].ttl > 0 =>
            now < l1[k].storedAt + l1[k].ttl + DefaultTTL \/ deadline[k] = now

Entry(id) ==
    IF id \notin Live(db, now) THEN Null
    ELSE [value |-> db.kv[id].value, tags |-> TagsOf(db, id),
          expires |-> db.kv[id].expires_at]

Interface == INSTANCE TaggedStore WITH
    entries <- [id \in Ids |-> Entry(id)], Absent <- Null, Never <- Null

AsEntry(row) ==
    [value |-> row.value, tags |-> Range(row.tags), expires |-> ExpiresAt(row.ttl, now)]

\* What the methods of the interface do to it.
MethodsAreExact ==
    /\ \A id \in PlainKeys, row \in Rows :
          DbSet(id, row) => Interface!Write([x \in {id} |-> AsEntry(row)])
    /\ \A r \in Requests :
          WriteCache(r) /\ r.key \notin torn' =>
              Interface!Write([x \in {r.key} |->
                  AsEntry([value |-> l1'[x], ttl |-> l1'[x].ttl, tags |-> r.tags])])
    /\ \A S \in {PlainKeys, Ids}, tags \in TagLists :
          DbDeleteByTags(S, tags) => Interface!Remove(S \cap Interface!Tagged(tags))
    /\ Purge \/ (\E k \in QueryKeys : ReadCache(k)) \/ (\E S \in SUBSET PlainKeys : DbGet(S))
          => UNCHANGED Interface!vars

\* The tables, with their cascade, lazy expiration, purge and transactions,
\* cannot be told from a map whose entries go when they expire, with their
\* tags: a write replaces value, expiry and tags of its entries and of no
\* other, a deletion by tags finds the live entries that have one, and what
\* only cleans the tables up cannot be seen.
ImplementsStore == Interface!Spec /\ [][MethodsAreExact]_vars
=============================================================================
