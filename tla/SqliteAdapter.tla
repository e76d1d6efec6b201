--------------------------- MODULE SqliteAdapter ---------------------------
(***************************************************************************)
(* The SQLite adapter (db/sqlite-adapter.ts) as operators on its database: *)
(* the rows of table kv and those of table kv_tags, which refer to them    *)
(* and go with them (ON DELETE CASCADE).  A row that has expired stays     *)
(* until it is read, purged or overwritten.  Every method runs to its end  *)
(* before it returns its promise, so it is a single step; what is known of *)
(* a row is found under its id, a namespace and a key.                     *)
(***************************************************************************)
EXTENDS Integers, FiniteSets, Sequences, Functions

CONSTANTS
    Ids,
    Tags,
    Null,        \* no expiry, no limit passed
    QueryLimit   \* the rows a query returns at most, when no limit is passed

ASSUME AdapterAssumption ==
    /\ IsFiniteSet(Ids) /\ IsFiniteSet(Tags)
    /\ QueryLimit \in Nat /\ Null \notin Int

NoRows == [kv |-> << >>, kv_tags |-> {}]

Stored(db) == DOMAIN db.kv
TagsOf(db, id) == {t \in Tags : <<id, t>> \in db.kv_tags}

\* The foreign key: a tag is of a row.
References(db) == db.kv_tags \subseteq Stored(db) \X Tags

\* A time to live that is absent, or not positive, is none.
ExpiresAt(ttl, now) == IF ttl # Null /\ ttl > 0 THEN now + ttl ELSE Null

isExpired(db, id, now) ==
    db.kv[id].expires_at # Null /\ db.kv[id].expires_at <= now

Live(db, now) == {id \in Stored(db) : ~isExpired(db, id, now)}

\* DELETE, with its cascade.
Delete(db, S) ==
    [kv |-> Restrict(db.kv, Stored(db) \ S),
     kv_tags |-> {r \in db.kv_tags : r[1] \notin S}]

\* Lazy expiration, on a get, a has or an mget.
Touched(db, S, now) == Delete(db, S \cap (Stored(db) \ Live(db, now)))

Written(row, created_at, now) ==
    [value |-> row.value, expires_at |-> ExpiresAt(row.ttl, now), created_at |-> created_at]

\* Wrong: the tags of the row that was there stay.
TagsAdded(db, rows) ==
    db.kv_tags \cup {r \in (DOMAIN rows) \X Tags : r[2] \in Range(rows[r[1]].tags)}

TagsReplaced(db, rows) ==
    {r \in db.kv_tags : r[1] \notin DOMAIN rows}
    \cup {r \in (DOMAIN rows) \X Tags : r[2] \in Range(rows[r[1]].tags)}

\* Wrong: ON CONFLICT DO NOTHING.
InsertOrIgnore(db, rows, now) ==
    [kv |-> [id \in Stored(db) \cup DOMAIN rows |->
               IF id \in Stored(db) THEN db.kv[id] ELSE Written(rows[id], now, now)],
     kv_tags |-> TagsReplaced(db, rows)]

\* The transaction of set and mset: each row is inserted or, but for the time
\* of its creation, replaced.
Upsert(db, rows, now) ==
    [kv |-> [id \in Stored(db) \cup DOMAIN rows |->
               IF id \notin DOMAIN rows THEN db.kv[id]
               ELSE IF id \in Stored(db)
               THEN Written(rows[id], db.kv[id].created_at, now)
               ELSE Written(rows[id], now, now)],
     kv_tags |-> TagsReplaced(db, rows)]

\* A tag that is named twice violates the primary key of kv_tags: the
\* transaction fails, and is rolled back.
Commits(rows) == \A id \in DOMAIN rows : IsInjective(rows[id].tags)

Matching(db, S, tags, now) ==
    {id \in Live(db, now) \cap S : TagsOf(db, id) \cap tags # {}}

\* query: the matches created first, up to the limit.
QueryResults(db, S, tags, now) ==
    LET found == Matching(db, S, tags, now) IN
    {R \in SUBSET found :
        /\ Cardinality(R) = IF Cardinality(found) < QueryLimit
                            THEN Cardinality(found) ELSE QueryLimit
        /\ \A id \in R, other \in found \ R :
               db.kv[id].created_at <= db.kv[other].created_at}

\* Those that have expired and are still there as well.
DeleteByTags(db, S, tags) ==
    Delete(db, {id \in Stored(db) \cap S : TagsOf(db, id) \cap tags # {}})

PurgeExpired(db, now) == Delete(db, Stored(db) \ Live(db, now))
=============================================================================
