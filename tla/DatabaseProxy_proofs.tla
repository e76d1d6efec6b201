------------------------ MODULE DatabaseProxy_proofs ------------------------
(***************************************************************************)
(* The two levels of the query cache agree, and what they serve is of      *)
(* bounded age, for any keys, clients, connectors, requests and times to   *)
(* live.  The write-behind buffer keeps the order of the writes of each    *)
(* database and counts every write, for any number of databases, any size  *)
(* of the buffer and any number of retries.                                *)
(***************************************************************************)
EXTENDS DatabaseProxy, WriteBehind, FiniteSetTheorems, TLAPS

\* A result as either level holds it at time t.
Result(envelope, t) ==
    /\ envelope.storedAt \in Nat /\ envelope.storedAt <= t
    /\ envelope.ttl \in Int

\* The second level: a row expires when its result does.
TablesOK(d, t) ==
    /\ Stored(d) \subseteq Ids
    /\ References(d)
    /\ \A id \in Stored(d) : d.kv[id].expires_at \in Nat \cup {Null}
    /\ \A k \in QueryKeys \cap Stored(d) :
          LET envelope == d.kv[k].value IN
          /\ Result(envelope, t)
          /\ envelope.ttl > 0 => d.kv[k].expires_at = envelope.storedAt + envelope.ttl

\* The timer of a result that was set runs for its time to live, the timer of
\* one that was promoted for the cache service's own, if that has one.
Timed(envelope, timer, from) ==
    envelope.ttl > 0 =>
        /\ from = "set" => timer = envelope.storedAt + envelope.ttl
        /\ from = "promoted" /\ DefaultTTL > 0 =>
              /\ timer # Null
              /\ timer <= envelope.storedAt + envelope.ttl + DefaultTTL

\* The first level: no timer is overdue, and of an entry that was not restored
\* from a snapshot it is known when it was stored and when it goes.
LevelOK(m, due, org, t) ==
    /\ m = [k \in QueryKeys |-> m[k]]
    /\ due \in [QueryKeys -> Nat \cup {Null}]
    /\ org \in [QueryKeys -> Origins \cup {Null}]
    /\ \A k \in QueryKeys : due[k] # Null => t <= due[k]
    /\ \A k \in QueryKeys : org[k] = Null => m[k] = Null
    /\ \A k \in QueryKeys : org[k] \in {"set", "promoted"} =>
          Result(m[k], t) /\ Timed(m[k], due[k], org[k])

Agree(d, m, tn, org, t) ==
    \A k \in QueryKeys \cap Live(d, t) :
        m[k] \in {Null, d.kv[k].value} \/ k \in tn \/ org[k] = "restored"

\* Both levels.
CacheOK ==
    /\ now \in Nat
    /\ TablesOK(db, now)
    /\ LevelOK(l1, deadline, origin, now)
    /\ Agree(db, l1, torn, origin, now)

RestOK ==
    /\ closed \in BOOLEAN
    /\ connectors \in [Connectors -> Configs \cup {Null}]
    /\ version \in 0..MaxVersion
    /\ pending \in [Clients -> Asking \cup {Null}]

IInv == CacheOK /\ RestOK

-----------------------------------------------------------------------------
(* The operations on the tables.                                           *)

\* Deleting rows leaves the others as they are.
LEMMA DeleteKeeps ==
    ASSUME NEW d, NEW S, NEW t
    PROVE  /\ Stored(Delete(d, S)) = Stored(d) \ S
           /\ \A id \in Stored(d) \ S : Delete(d, S).kv[id] = d.kv[id]
           /\ Live(Delete(d, S), t) = Live(d, t) \ S
           /\ TablesOK(d, t) => TablesOK(Delete(d, S), t)
  <1>1. /\ Stored(Delete(d, S)) = Stored(d) \ S
        /\ \A id \in Stored(d) \ S : Delete(d, S).kv[id] = d.kv[id]
    BY DEF Stored, Delete, Restrict
  <1>2. Live(Delete(d, S), t) = Live(d, t) \ S
    BY <1>1 DEF Live, isExpired
  <1>3. ASSUME TablesOK(d, t)
        PROVE  References(Delete(d, S))
    <2>1. \A r \in Delete(d, S).kv_tags : r \in Stored(d) \X Tags /\ r[1] \notin S
      BY <1>3 DEF Delete, TablesOK, References
    <2>2. QED
      BY <2>1, <1>1 DEF References
  <1>4. QED
    BY <1>1, <1>2, <1>3 DEF TablesOK

\* Deleting rows cannot make the levels differ.
LEMMA DeleteAgrees ==
    ASSUME NEW d, NEW S, NEW t, NEW m, NEW tn, NEW org,
           Agree(d, m, tn, org, t)
    PROVE  Agree(Delete(d, S), m, tn, org, t)
  <1>1. \A id \in Live(d, t) \ S : Delete(d, S).kv[id] = d.kv[id]
    BY DeleteKeeps DEF Live
  <1>2. QED
    BY <1>1, DeleteKeeps DEF Agree

\* A write replaces the rows it names and no other.
LEMMA UpsertWrites ==
    ASSUME NEW d, NEW rows, NEW t, TablesOK(d, t), DOMAIN rows \subseteq Ids
    PROVE  LET e == Upsert(d, rows, t) IN
           /\ Stored(e) = Stored(d) \cup DOMAIN rows
           /\ References(e)
           /\ \A id \in Stored(d) \ DOMAIN rows : e.kv[id] = d.kv[id]
           /\ \A id \in DOMAIN rows :
                 /\ e.kv[id].value = rows[id].value
                 /\ e.kv[id].expires_at = ExpiresAt(rows[id].ttl, t)
  <1> DEFINE e == Upsert(d, rows, t)
  <1>1. Stored(e) = Stored(d) \cup DOMAIN rows
    BY DEF Stored, Upsert
  <1>2. \A id \in Stored(d) \ DOMAIN rows : e.kv[id] = d.kv[id]
    BY DEF Stored, Upsert
  <1>3. \A id \in DOMAIN rows :
           \/ e.kv[id] = Written(rows[id], t, t)
           \/ e.kv[id] = Written(rows[id], d.kv[id].created_at, t)
    BY DEF Stored, Upsert
  <1>4. \A row, created : /\ Written(row, created, t).value = row.value
                          /\ Written(row, created, t).expires_at = ExpiresAt(row.ttl, t)
    BY DEF Written
  <1>7. \A id \in DOMAIN rows :
           /\ e.kv[id].value = rows[id].value
           /\ e.kv[id].expires_at = ExpiresAt(rows[id].ttl, t)
    BY <1>3, <1>4, ZenonT(30)
  <1>5. References(e)
    <2>1. e.kv_tags \subseteq d.kv_tags \cup ((DOMAIN rows) \X Tags)
      BY DEF Upsert, TagsReplaced
    <2>2. d.kv_tags \subseteq Stored(d) \X Tags
      BY DEF TablesOK, References
    <2>3. QED
      BY <1>1, <2>1, <2>2 DEF References
  <1>6. QED
    BY <1>1, <1>2, <1>7, <1>5

\* An expiry computed from a time to live is a time or none.
LEMMA ExpiryType ==
    ASSUME NEW ttl \in Int \cup {Null}, NEW t \in Nat
    PROVE  /\ ExpiresAt(ttl, t) \in Nat \cup {Null}
           /\ ttl \in Int /\ ttl > 0 => ExpiresAt(ttl, t) = t + ttl
           /\ ExpiresAt(ttl, t) # Null => ExpiresAt(ttl, t) >= t
  <1>1. Null \notin Int
    BY AdapterAssumption
  <1>2. CASE ttl = Null
    BY <1>1, <1>2 DEF ExpiresAt
  <1>3. CASE ttl \in Int
    <2>1. CASE ttl > 0
      <3>1. ExpiresAt(ttl, t) = t + ttl
        BY <1>1, <1>3, <2>1 DEF ExpiresAt
      <3>2. QED
        BY <3>1, <1>3, <2>1
    <2>2. CASE ~(ttl > 0)
      BY <2>2 DEF ExpiresAt
    <2>3. QED
      BY <2>1, <2>2
  <1>4. QED
    BY <1>2, <1>3

-----------------------------------------------------------------------------
(* What the steps of the query cache do to its levels.                     *)

\* Removing entries of the first level.
LEMMA MemDeleteKeeps ==
    ASSUME CacheOK, NEW S, MemDelete(S), NEW R, db' = Delete(db, R),
           UNCHANGED now, torn' = torn \/ \A k \in QueryKeys : k \in S
    PROVE  CacheOK'
  <1>1. TablesOK(db', now)
    BY DeleteKeeps DEF CacheOK
  <1>2. LevelOK(l1', deadline', origin', now)
    BY OriginsAssumption DEF CacheOK, MemDelete, LevelOK, Origins
  <1>3. Agree(db', l1, torn, origin, now)
    BY DeleteAgrees DEF CacheOK
  <1>4. Agree(db', l1', torn', origin', now)
    BY <1>3, Zenon DEF MemDelete, Agree
  <1>5. QED
    BY <1>1, <1>2, <1>4 DEF CacheOK

\* Setting an entry of the first level: its timer runs from now, for its time
\* to live or the cache service's own.
LEMMA MemSetKeeps ==
    ASSUME now \in Nat, LevelOK(l1, deadline, origin, now), NEW k \in QueryKeys,
           NEW envelope, Result(envelope, now), NEW ttl \in Int \cup {Null},
           NEW from \in {"set", "promoted"}, MemSet(k, envelope, ttl, from),
           envelope.ttl > 0 =>
               /\ from = "set" => ttl = envelope.ttl /\ envelope.storedAt = now
               /\ from = "promoted" =>
                     ttl = Null /\ now <= envelope.storedAt + envelope.ttl
    PROVE  LevelOK(l1', deadline', origin', now)
  <1> DEFINE effective == IF ttl = Null THEN DefaultTTL ELSE ttl
             expires == ExpiresAt(effective, now)
  <1>1. effective \in Int /\ Null \notin Int
    BY TTLAssumption, AdapterAssumption
  <1>2. /\ expires \in Nat \cup {Null}
        /\ effective > 0 => expires = now + effective
        /\ expires # Null => expires >= now
    BY <1>1, ExpiryType
  <1>e. ttl # Null => effective = ttl
    OBVIOUS
  <1>d. ttl = Null => effective = DefaultTTL
    OBVIOUS
  <1> HIDE DEF expires, effective
  <1>3. /\ l1' = [l1 EXCEPT ![k] = envelope]
        /\ deadline' = [deadline EXCEPT ![k] = IF expires = Null THEN @ ELSE expires]
        /\ origin' = [origin EXCEPT ![k] = from]
    BY DEF MemSet, expires, effective
  <1>4. l1' = [x \in QueryKeys |-> l1'[x]] /\ l1'[k] = envelope
    BY <1>3 DEF LevelOK
  <1>5. \A x \in QueryKeys \ {k} :
           l1'[x] = l1[x] /\ deadline'[x] = deadline[x] /\ origin'[x] = origin[x]
    BY <1>3 DEF LevelOK
  <1>6. /\ deadline' \in [QueryKeys -> Nat \cup {Null}]
        /\ deadline'[k] = IF expires = Null THEN deadline[k] ELSE expires
    BY <1>2, <1>3 DEF LevelOK
  <1>7. deadline'[k] # Null => now <= deadline'[k]
    BY <1>2, <1>6 DEF LevelOK
  <1>8. Timed(envelope, deadline'[k], from)
    <2>1. ASSUME envelope.ttl > 0, from = "set"
          PROVE  deadline'[k] = envelope.storedAt + envelope.ttl
      <3>1. ttl = envelope.ttl /\ ttl \in Int /\ ttl > 0 /\ envelope.storedAt = now
        BY <2>1 DEF Result
      <3>2. effective = ttl
        BY <3>1, <1>1, <1>e
      <3>3. expires = now + ttl /\ expires # Null
        BY <3>1, <3>2, <1>1, <1>2
      <3>4. QED
        BY <3>1, <3>3, <1>6
    <2>2. ASSUME envelope.ttl > 0, from = "promoted", DefaultTTL > 0
          PROVE  /\ deadline'[k] # Null
                 /\ deadline'[k] <= envelope.storedAt + envelope.ttl + DefaultTTL
      <3>1. effective = DefaultTTL
        BY <2>2, <1>d
      <3>2. expires = now + DefaultTTL /\ expires # Null
        BY <2>2, <3>1, <1>1, <1>2
      <3>3. now <= envelope.storedAt + envelope.ttl
        BY <2>2
      <3>4. QED
        BY <3>2, <3>3, <1>6, TTLAssumption DEF Result
    <2>3. QED
      BY <2>1, <2>2 DEF Timed
  <1>9. /\ origin' \in [QueryKeys -> Origins \cup {Null}] /\ origin'[k] = from
        /\ from # Null
    BY <1>3, OriginsAssumption DEF LevelOK, Origins
  <1>10. ASSUME NEW x \in QueryKeys
         PROVE  /\ origin'[x] = Null => l1'[x] = Null
                /\ deadline'[x] # Null => now <= deadline'[x]
                /\ origin'[x] \in {"set", "promoted"} =>
                      Result(l1'[x], now) /\ Timed(l1'[x], deadline'[x], origin'[x])
    <2>1. CASE x = k
      BY <2>1, <1>4, <1>7, <1>8, <1>9
    <2>2. CASE x # k
      BY <2>2, <1>5 DEF LevelOK
    <2>3. QED
      BY <2>1, <2>2
  <1>11. QED
    BY <1>4, <1>6, <1>9, <1>10 DEF LevelOK

\* A hit in the second level is promoted: the levels then agree on its key.
LEMMA LookupKeeps ==
    ASSUME CacheOK, NEW k \in QueryKeys, Lookup(k), UNCHANGED now
    PROVE  CacheOK'
  <1>1. CASE l1[k] # Null \/ closed
    BY <1>1 DEF Lookup, CacheOK, memory
  <1>2. CASE ~(l1[k] # Null \/ closed) /\ k \notin Live(db, now)
    <2>1. db' = Touched(db, {k}, now) /\ UNCHANGED <<l1, deadline, origin, torn>>
      BY <1>2 DEF Lookup, memory
    <2>2. TablesOK(db', now) /\ Agree(db', l1, torn, origin, now)
      BY <2>1, DeleteKeeps, DeleteAgrees DEF CacheOK, Touched
    <2>3. QED
      BY <2>1, <2>2 DEF CacheOK
  <1>3. CASE ~(l1[k] # Null \/ closed) /\ k \in Live(db, now)
    <2> DEFINE envelope == db.kv[k].value
               R == {k} \cap (Stored(db) \ Live(db, now))
    <2>1. /\ db' = Delete(db, R) /\ R = {}
          /\ MemSet(k, envelope, Null, "promoted") /\ torn' = torn \ {k}
      BY <1>3 DEF Lookup, Touched
    <2>2. /\ TablesOK(db', now)
          /\ Live(db', now) = Live(db, now)
          /\ \A id \in Live(db, now) : db'.kv[id] = db.kv[id]
      <3> HIDE DEF R
      <3>1. Live(db, now) \subseteq Stored(db)
        BY DEF Live
      <3>2. /\ TablesOK(Delete(db, R), now)
            /\ Live(Delete(db, R), now) = Live(db, now) \ R
            /\ \A id \in Stored(db) \ R : Delete(db, R).kv[id] = db.kv[id]
        BY DeleteKeeps DEF CacheOK
      <3>3. db' = Delete(db, R) /\ R = {}
        BY <2>1
      <3>4. QED
        BY <3>1, <3>2, <3>3
    <2>3. Result(envelope, now) /\ (envelope.ttl > 0 => now <= envelope.storedAt + envelope.ttl)
      <3>1. k \in Stored(db) /\ ~isExpired(db, k, now)
        BY <1>3 DEF Live
      <3>2. /\ Result(envelope, now)
            /\ envelope.ttl > 0 => db.kv[k].expires_at = envelope.storedAt + envelope.ttl
        BY <3>1 DEF CacheOK, TablesOK
      <3>3. ASSUME envelope.ttl > 0 PROVE now <= envelope.storedAt + envelope.ttl
        <4>1. envelope.storedAt + envelope.ttl \in Int
          BY <3>2 DEF Result
        <4>2. QED
          BY <3>1, <3>2, <3>3, <4>1, AdapterAssumption DEF isExpired, CacheOK
      <3>4. QED
        BY <3>2, <3>3
    <2>4. LevelOK(l1', deadline', origin', now)
      <3> HIDE DEF envelope
      <3>1. QED
        BY <2>1, <2>3, MemSetKeeps, AdapterAssumption DEF CacheOK
    <2>5. Agree(db', l1', torn', origin', now)
      <3>1. /\ l1'[k] = db.kv[k].value
            /\ \A x \in QueryKeys \ {k} : l1'[x] = l1[x] /\ origin'[x] = origin[x]
        BY <2>1 DEF MemSet, CacheOK, LevelOK
      <3>2. QED
        BY <3>1, <2>1, <2>2 DEF Agree, CacheOK
    <2>6. QED
      BY <2>2, <2>4, <2>5 DEF CacheOK
  <1>4. QED
    BY <1>1, <1>2, <1>3

\* A result that is cached goes to both levels or, if the second throws, its
\* key is torn.
LEMMA SetBothKeeps ==
    ASSUME CacheOK, NEW k \in QueryKeys, NEW data, NEW ttl \in Int, NEW tags,
           SetBoth(k, data, ttl, tags), UNCHANGED now
    PROVE  CacheOK'
  <1> DEFINE envelope == Envelope(data, ttl)
             rows == [id \in {k} |-> [value |-> envelope, ttl |-> ttl, tags |-> tags]]
  <1>1. Result(envelope, now) /\ envelope.storedAt = now /\ envelope.ttl = ttl
    BY DEF Envelope, Result, CacheOK
  <1>2. /\ MemSet(k, envelope, IF ttl > 0 THEN ttl ELSE Null, "set")
        /\ \/ db' = Upsert(db, rows, now) /\ torn' = torn \ {k}
           \/ db' = db /\ torn' = torn \cup {k}
    BY DEF SetBoth
  <1>3. LevelOK(l1', deadline', origin', now)
    <2>1. CASE ttl > 0
      <3>1. MemSet(k, envelope, ttl, "set") /\ ttl # Null
        BY <2>1, <1>2, AdapterAssumption
      <3> HIDE DEF envelope
      <3>2. QED
        BY <3>1, <2>1, <1>1, MemSetKeeps DEF CacheOK
    <2>2. CASE ~(ttl > 0)
      <3>1. MemSet(k, envelope, Null, "set")
        BY <2>2, <1>2
      <3> HIDE DEF envelope
      <3>2. QED
        BY <3>1, <2>2, <1>1, MemSetKeeps DEF CacheOK
    <2>3. QED
      BY <2>1, <2>2
  <1>4. /\ l1'[k] = envelope
        /\ \A x \in QueryKeys \ {k} : l1'[x] = l1[x] /\ origin'[x] = origin[x]
    BY <1>2 DEF MemSet, CacheOK, LevelOK
  <1>5. CASE db' = db /\ torn' = torn \cup {k}
    <2>1. Agree(db', l1', torn', origin', now)
      BY <1>4, <1>5 DEF Agree, CacheOK
    <2>2. QED
      BY <1>3, <1>5, <2>1 DEF CacheOK
  <1>6. CASE db' = Upsert(db, rows, now) /\ torn' = torn \ {k}
    <2>1. DOMAIN rows = {k} /\ k \in Ids
      BY KeysAssumption
    <2>2. rows[k].value = envelope /\ rows[k].ttl = ttl
      OBVIOUS
    <2> HIDE DEF rows, envelope
    <2>3. /\ Stored(db') = Stored(db) \cup {k}
          /\ References(db')
          /\ \A id \in Stored(db) \ {k} : db'.kv[id] = db.kv[id]
          /\ db'.kv[k].value = envelope
          /\ db'.kv[k].expires_at = ExpiresAt(ttl, now)
      BY <1>6, <2>1, <2>2, UpsertWrites DEF CacheOK
    <2>4. /\ ExpiresAt(ttl, now) \in Nat \cup {Null}
          /\ ttl > 0 => ExpiresAt(ttl, now) = now + ttl
      BY ExpiryType DEF CacheOK
    <2>5. TablesOK(db', now)
      <3>1. Stored(db') \subseteq Ids
        BY <2>1, <2>3 DEF CacheOK, TablesOK
      <3>2. \A id \in Stored(db') : db'.kv[id].expires_at \in Nat \cup {Null}
        BY <2>3, <2>4 DEF CacheOK, TablesOK
      <3>3. ASSUME NEW x \in QueryKeys \cap Stored(db')
            PROVE  LET kept == db'.kv[x].value IN
                   /\ Result(kept, now)
                   /\ kept.ttl > 0 => db'.kv[x].expires_at = kept.storedAt + kept.ttl
        <4>1. CASE x = k
          BY <4>1, <1>1, <2>3, <2>4
        <4>2. CASE x # k
          BY <4>2, <2>3 DEF CacheOK, TablesOK
        <4>3. QED
          BY <4>1, <4>2
      <3>4. QED
        BY <2>3, <3>1, <3>2, <3>3 DEF TablesOK
    <2>6. Agree(db', l1', torn', origin', now)
      <3>1. ASSUME NEW x \in QueryKeys \cap Live(db', now), x # k
            PROVE  x \in Live(db, now) /\ db'.kv[x] = db.kv[x]
        BY <3>1, <2>3 DEF Live, isExpired
      <3>2. QED
        BY <3>1, <1>4, <1>6, <2>3 DEF Agree, CacheOK
    <2>7. QED
      BY <1>3, <2>5, <2>6 DEF CacheOK
  <1>7. QED
    BY <1>2, <1>5, <1>6

\* The storage routes write rows that no query key has.
LEMMA PlainWritesKeep ==
    ASSUME CacheOK, NEW rows, DOMAIN rows \subseteq PlainKeys,
           \A id \in DOMAIN rows : rows[id] \in Rows,
           db' = Upsert(db, rows, now), UNCHANGED <<memory, torn, now>>
    PROVE  CacheOK'
  <1>1. DOMAIN rows \subseteq Ids /\ QueryKeys \cap DOMAIN rows = {}
    BY KeysAssumption
  <1>2. /\ Stored(db') = Stored(db) \cup DOMAIN rows
        /\ References(db')
        /\ \A id \in Stored(db) \ DOMAIN rows : db'.kv[id] = db.kv[id]
        /\ \A id \in DOMAIN rows :
              db'.kv[id].expires_at = ExpiresAt(rows[id].ttl, now)
    BY <1>1, UpsertWrites DEF CacheOK
  <1>3. \A id \in DOMAIN rows : ExpiresAt(rows[id].ttl, now) \in Nat \cup {Null}
    BY ExpiryType, InputAssumption DEF CacheOK
  <1>4. TablesOK(db', now)
    <2>1. Stored(db') \subseteq Ids
      BY <1>1, <1>2 DEF CacheOK, TablesOK
    <2>2. \A id \in Stored(db') : db'.kv[id].expires_at \in Nat \cup {Null}
      BY <1>2, <1>3 DEF CacheOK, TablesOK
    <2>3. \A k \in QueryKeys \cap Stored(db') : k \in Stored(db) /\ db'.kv[k] = db.kv[k]
      BY <1>1, <1>2
    <2>4. QED
      BY <1>2, <2>1, <2>2, <2>3 DEF CacheOK, TablesOK
  <1>5. \A k \in QueryKeys \cap Live(db', now) : k \in Live(db, now) /\ db'.kv[k] = db.kv[k]
    BY <1>1, <1>2 DEF Live, isExpired
  <1>6. Agree(db', l1', torn', origin', now)
    BY <1>5 DEF Agree, CacheOK, memory
  <1>7. QED
    BY <1>4, <1>6 DEF CacheOK, memory

-----------------------------------------------------------------------------
(* The invariant.                                                          *)

LEMMA InitInv == Init => IInv
  <1> SUFFICES ASSUME Init PROVE IInv
    OBVIOUS
  <1>1. Stored(db) = {} /\ db.kv_tags = {}
    BY DEF Init, NoRows, Stored
  <1>2. TablesOK(db, 0) /\ Agree(db, l1, torn, origin, 0)
    BY <1>1 DEF TablesOK, References, Agree, Live
  <1>3. LevelOK(l1, deadline, origin, 0)
    BY OriginsAssumption DEF Init, LevelOK, Origins
  <1>4. RestOK
    <2>1. closed = FALSE /\ version = 0
      BY DEF Init
    <2>2. 0 \in 0..MaxVersion
      BY BoundAssumption
    <2>3. /\ connectors \in [Connectors -> Configs \cup {Null}]
          /\ pending \in [Clients -> Asking \cup {Null}]
      BY DEF Init
    <2>4. QED
      BY <2>1, <2>2, <2>3 DEF RestOK
  <1>5. now = 0
    BY DEF Init
  <1>6. CacheOK
    BY <1>2, <1>3, <1>5 DEF CacheOK
  <1>7. QED
    BY <1>4, <1>6 DEF IInv

\* The result of a query is kept for a number of time units.
LEMMA CachedTTLType ==
    ASSUME NEW config \in Configs, NEW r \in Requests
    PROVE  CachedTTL(config, r) \in Int
  BY InputAssumption, TTLAssumption DEF CachedTTL, Least

\* Nothing but the levels of the cache needs the steps of its operations.
LEMMA RestInv ==
    ASSUME RestOK, [Next]_vars
    PROVE  RestOK'
  <1> USE DEF RestOK
  <1>1. ASSUME NEW c \in Clients, NEW n \in Connectors, NEW r \in Requests, Query(c, n, r)
        PROVE  RestOK'
    <2>1. [config |-> connectors[n], request |-> r, data |-> Null] \in Asking
      BY <1>1 DEF Query, Asking
    <2>2. QED
      BY <1>1, <2>1 DEF Query
  <1>2. ASSUME NEW c \in Clients, Executes(c)
        PROVE  RestOK'
    <2>1. pending[c] \in Asking
      BY <1>2 DEF Executes
    <2>2. version' \in 0..MaxVersion
      BY <1>2, BoundAssumption DEF Executes
    <2>3. [pending[c] EXCEPT !.data = version'] \in Asking
      BY <2>1, <2>2 DEF Asking
    <2>4. pending' = [pending EXCEPT ![c] = [pending[c] EXCEPT !.data = version']]
      BY <1>2 DEF Executes
    <2>5. QED
      BY <1>2, <2>2, <2>3, <2>4 DEF Executes
  <1>3. CASE \E c \in Clients : Answers(c) \/ Fails(c)
    BY <1>3 DEF Answers, Fails
  <1>4. CASE \E n \in Connectors : Unregister(n) \/ \E config \in Configs : Register(n, config)
    BY <1>4 DEF Register, Unregister
  <1>5. CASE ChangedElsewhere
    BY <1>5, BoundAssumption DEF ChangedElsewhere
  <1>6. CASE Close \/ \E snapshot \in Snapshots : Upload(snapshot) \/ Restart(snapshot)
    BY <1>6 DEF Close, Upload, Restart
  <1>7. CASE UNCHANGED <<closed, connectors, version, pending>>
    BY <1>7
  <1>8. QED
    <2>1. CASE UNCHANGED vars
      BY <2>1 DEF vars
    <2>2. CASE Next
      BY <2>2, <1>1, <1>2, <1>3, <1>4, <1>5, <1>6, <1>7
      DEF Next, Evict, Expire, Invalidate, ReadCache, InvalidateByTags, WriteCache,
          DbSet, DbMSet, DbGet, DbDelete, DbClear, DbDeleteByTags, Storage,
          Purge, Flush, Tick
    <2>3. QED
      BY <2>1, <2>2

\* Steps that only remove rows, and entries of the first level.
LEMMA RemovalsKeep ==
    ASSUME CacheOK, UNCHANGED <<torn, now>>, NEW R, db' = Delete(db, R),
           UNCHANGED memory \/ \E S : MemDelete(S)
    PROVE  CacheOK'
  <1>1. CASE \E S : MemDelete(S)
    BY <1>1, MemDeleteKeeps
  <1>2. CASE UNCHANGED memory
    <2>1. TablesOK(db', now) /\ Agree(db', l1, torn, origin, now)
      BY DeleteKeeps, DeleteAgrees DEF CacheOK
    <2>2. QED
      BY <2>1, <1>2 DEF CacheOK, memory
  <1>3. QED
    BY <1>1, <1>2

\* Time passes: rows expire, and no timer is passed over.
LEMMA TickKeeps ==
    ASSUME CacheOK, Tick
    PROVE  CacheOK'
  <1>1. now' = now + 1 /\ UNCHANGED <<db, l1, deadline, origin, torn>>
    BY DEF Tick, memory
  <1>2. \A envelope : Result(envelope, now) => Result(envelope, now')
    BY <1>1 DEF Result, CacheOK
  <1>3. TablesOK(db, now')
    BY <1>2 DEF CacheOK, TablesOK
  <1>4. \A k \in QueryKeys : deadline[k] # Null => now' <= deadline[k]
    BY <1>1 DEF Tick, CacheOK, LevelOK
  <1>5. LevelOK(l1, deadline, origin, now')
    BY <1>2, <1>4 DEF CacheOK, LevelOK
  <1>6. ASSUME NEW id \in Live(db, now') PROVE id \in Live(db, now)
    <2>1. id \in Stored(db) /\ db.kv[id].expires_at \in Nat \cup {Null}
      BY <1>6 DEF Live, CacheOK, TablesOK
    <2>2. CASE db.kv[id].expires_at = Null
      BY <2>1, <2>2 DEF Live, isExpired
    <2>3. CASE db.kv[id].expires_at \in Nat
      BY <1>1, <1>6, <2>1, <2>3 DEF Live, isExpired, CacheOK
    <2>4. QED
      BY <2>1, <2>2, <2>3
  <1>7. Agree(db, l1, torn, origin, now')
    BY <1>6 DEF Agree, CacheOK
  <1>8. now' \in Nat
    BY <1>1 DEF CacheOK
  <1>9. CacheOK'
    BY <1>1, <1>3, <1>5, <1>7, <1>8 DEF CacheOK
  <1>10. QED
    BY <1>9

\* Entries of the first level go with the second as it is.
LEMMA FirstLevelShrinks ==
    ASSUME CacheOK, UNCHANGED <<db, now>>, NEW S, MemDelete(S),
           UNCHANGED torn \/ S = QueryKeys
    PROVE  CacheOK'
  <1>1. TablesOK(db', now') /\ now' \in Nat
    BY DEF CacheOK
  <1>2. LevelOK(l1', deadline', origin', now')
    BY OriginsAssumption DEF CacheOK, MemDelete, LevelOK, Origins
  <1>3. Agree(db', l1', torn', origin', now')
    BY Zenon DEF CacheOK, MemDelete, Agree
  <1>4. QED
    BY <1>1, <1>2, <1>3 DEF CacheOK

\* Entries restored from a snapshot are known as such, and have no timer but
\* one that was armed.
LEMMA RestoreKeeps ==
    ASSUME CacheOK, NEW snapshot, Upload(snapshot) \/ Restart(snapshot)
    PROVE  CacheOK'
  <1> DEFINE S == DOMAIN snapshot
  <1>1. /\ UNCHANGED <<db, now>>
        /\ l1' = [k \in QueryKeys |-> l1'[k]]
        /\ \/ deadline' = deadline
           \/ deadline' = [k \in QueryKeys |-> Null]
    BY DEF Upload, Restart
  <1>2. \A k \in QueryKeys \cap S : origin'[k] = "restored"
    BY DEF Upload, Restart
  <1>3. \A k \in QueryKeys \ S :
           \/ /\ l1'[k] = l1[k] /\ origin'[k] = origin[k]
              /\ deadline' = deadline /\ torn' = torn
           \/ l1'[k] = Null /\ origin'[k] = Null
    BY DEF Upload, Restart
  <1>4. origin' \in [QueryKeys -> Origins \cup {Null}]
    BY DEF Upload, Restart, CacheOK, LevelOK, Origins
  <1>5. TablesOK(db', now') /\ now' \in Nat
    BY <1>1 DEF CacheOK
  <1> HIDE DEF S
  <1>6. /\ deadline' \in [QueryKeys -> Nat \cup {Null}]
        /\ \A k \in QueryKeys : deadline'[k] # Null => now <= deadline'[k]
    BY <1>1 DEF CacheOK, LevelOK
  <1>7. ASSUME NEW k \in QueryKeys
        PROVE  /\ origin'[k] = Null => l1'[k] = Null
               /\ origin'[k] \in {"set", "promoted"} =>
                     Result(l1'[k], now) /\ Timed(l1'[k], deadline'[k], origin'[k])
    <2>1. CASE k \in S
      BY <2>1, <1>2, OriginsAssumption DEF Origins
    <2>2. CASE k \notin S
      BY <2>2, <1>3, OriginsAssumption DEF Origins, CacheOK, LevelOK
    <2>3. QED
      BY <2>1, <2>2
  <1>8. LevelOK(l1', deadline', origin', now')
    BY <1>1, <1>4, <1>6, <1>7 DEF LevelOK
  <1>9. Agree(db', l1', torn', origin', now')
    <2> SUFFICES ASSUME NEW k \in QueryKeys \cap Live(db, now)
                 PROVE  l1'[k] \in {Null, db.kv[k].value} \/ k \in torn' \/ origin'[k] = "restored"
      BY <1>1 DEF Agree
    <2>1. CASE k \in S
      BY <2>1, <1>2
    <2>2. CASE k \notin S
      BY <2>2, <1>3 DEF CacheOK, Agree
    <2>3. QED
      BY <2>1, <2>2
  <1>10. QED
    BY <1>5, <1>8, <1>9 DEF CacheOK

\* Steps that leave both levels alone.
LEMMA CacheUnchanged ==
    ASSUME CacheOK, UNCHANGED <<db, memory, torn, now>>
    PROVE  CacheOK'
  BY DEF CacheOK, memory

LEMMA CacheInv ==
    ASSUME IInv, [Next]_vars
    PROVE  CacheOK'
  <1> USE DEF IInv
  <1>1. ASSUME NEW k \in QueryKeys, Evict(k)
        PROVE  CacheOK'
    <2>1. /\ l1' = [l1 EXCEPT ![k] = Null]
          /\ origin' = [origin EXCEPT ![k] = Null]
          /\ UNCHANGED <<db, deadline, torn, now>>
      BY <1>1 DEF Evict
    <2>2. LevelOK(l1', deadline', origin', now)
      BY <2>1, OriginsAssumption DEF CacheOK, LevelOK, Origins
    <2>3. Agree(db, l1', torn, origin', now)
      BY <2>1 DEF CacheOK, LevelOK, Agree
    <2>4. QED
      BY <2>1, <2>2, <2>3 DEF CacheOK
  <1>2. ASSUME NEW k \in QueryKeys, Invalidate(k)
        PROVE  CacheOK'
    <2>1. /\ MemDelete({k}) /\ UNCHANGED <<torn, now>>
          /\ db' = Delete(db, {k}) \/ db' = db
      BY <1>2 DEF Invalidate
    <2>2. QED
      BY <2>1, RemovalsKeep, FirstLevelShrinks
  <1>3. CASE \/ \E k \in QueryKeys : Expire(k)
             \/ Flush
             \/ \E snapshot \in Snapshots : Upload(snapshot) \/ Restart(snapshot)
    <2>1. CASE (\E k \in QueryKeys : Expire(k)) \/ Flush
      BY <2>1, FirstLevelShrinks DEF Expire, Flush
    <2>2. ASSUME NEW snapshot \in Snapshots, Upload(snapshot) \/ Restart(snapshot)
          PROVE  CacheOK'
      BY <2>2, RestoreKeeps
    <2>3. QED
      BY <1>3, <2>1, <2>2
  <1>4. ASSUME NEW k \in QueryKeys, ReadCache(k)
        PROVE  CacheOK'
    BY <1>4, LookupKeeps DEF ReadCache
  <1>5. ASSUME NEW r \in Requests, WriteCache(r)
        PROVE  CacheOK'
    <2> DEFINE ttl == IF r.ttl = Null THEN QueryTTL ELSE r.ttl
    <2>1. ttl \in Int /\ r.key \in QueryKeys
      BY InputAssumption, TTLAssumption
    <2>2. SetBoth(r.key, version, ttl, r.tags) /\ UNCHANGED now
      BY <1>5 DEF WriteCache
    <2> HIDE DEF ttl
    <2>3. QED
      BY <2>1, <2>2, SetBothKeeps
  <1>6. ASSUME NEW tags \in TagLists, InvalidateByTags(tags)
        PROVE  CacheOK'
    BY <1>6, RemovalsKeep DEF InvalidateByTags, DeleteByTags
  <1>7. ASSUME NEW c \in Clients, NEW n \in Connectors, NEW r \in Requests, Query(c, n, r)
        PROVE  CacheOK'
    <2>1. CASE r.skipCache
      BY <1>7, <2>1, CacheUnchanged DEF Query
    <2>2. CASE ~r.skipCache
      BY <1>7, <2>2, LookupKeeps, InputAssumption DEF Query
    <2>3. QED
      BY <2>1, <2>2
  <1>8. ASSUME NEW c \in Clients, Answers(c)
        PROVE  CacheOK'
    <2> DEFINE config == pending[c].config
               r == pending[c].request
    <2>1. UNCHANGED now /\ config \in Configs /\ r \in Requests
      BY <1>8 DEF Answers, RestOK, Asking
    <2>2. CASE UNCHANGED <<db, memory, torn>>
      BY <2>1, <2>2, CacheUnchanged
    <2>3. CASE SetBoth(r.key, pending[c].data, CachedTTL(config, r),
                       config.defaultTags \o r.tags)
      <3> HIDE DEF config, r
      <3>1. r.key \in QueryKeys /\ CachedTTL(config, r) \in Int
        BY <2>1, InputAssumption, CachedTTLType
      <3>2. QED
        BY <2>1, <2>3, <3>1, SetBothKeeps
    <2>4. QED
      BY <1>8, <2>2, <2>3 DEF Answers
  <1>9. ASSUME NEW id \in PlainKeys, NEW row \in Rows, DbSet(id, row)
        PROVE  CacheOK'
    <2> DEFINE rows == [x \in {id} |-> row]
    <2>1. db' = Upsert(db, rows, now) /\ UNCHANGED <<memory, torn, now>>
      BY <1>9 DEF DbSet, Storage
    <2>2. DOMAIN rows \subseteq PlainKeys /\ \A x \in DOMAIN rows : rows[x] \in Rows
      OBVIOUS
    <2> HIDE DEF rows
    <2>3. QED
      BY <2>1, <2>2, PlainWritesKeep
  <1>10. ASSUME NEW S \in SUBSET PlainKeys, NEW rows \in [S -> Rows], DbMSet(rows)
         PROVE  CacheOK'
    BY <1>10, PlainWritesKeep DEF DbMSet, Storage
  <1>11. ASSUME NEW S, DbGet(S) \/ DbDelete(S) \/ DbClear(S)
         PROVE  CacheOK'
    BY <1>11, RemovalsKeep DEF DbGet, DbDelete, DbClear, Storage, Touched
  <1>12. ASSUME NEW S, NEW tags, DbDeleteByTags(S, tags)
         PROVE  CacheOK'
    BY <1>12, RemovalsKeep DEF DbDeleteByTags, Storage, DeleteByTags
  <1>13. CASE Purge
    BY <1>13, RemovalsKeep DEF Purge, Storage, PurgeExpired
  <1>14. CASE UNCHANGED <<db, memory, torn, now>>
    BY <1>14, CacheUnchanged
  <1>15. CASE Tick
    BY <1>15, TickKeeps
  <1>16. QED
    <2>1. CASE UNCHANGED vars
      BY <2>1, <1>14 DEF vars
    <2>2. CASE Next
      BY <2>2, <1>1, <1>2, <1>3, <1>4, <1>5, <1>6, <1>7, <1>8, <1>9, <1>10, <1>11,
         <1>12, <1>13, <1>14, <1>15
      DEF Next, Register, Unregister, Executes, Fails, ChangedElsewhere, Close
    <2>3. QED
      BY <2>1, <2>2

-----------------------------------------------------------------------------
(* The theorems.                                                           *)

LEMMA Inductive == Spec => []IInv
  <1>1. IInv /\ [Next]_vars => IInv'
    BY CacheInv, RestInv DEF IInv
  <1>2. QED
    BY InitInv, <1>1, PTL DEF Spec

\* LevelsAgree, of query-cache.ts: the cache service and the SQLite adapter
\* never hold different results for a query, unless the last write of its key
\* failed in the adapter, or its entry in the cache service was restored from a
\* snapshot, whatever the requests, expiries, evictions, invalidations, uploads
\* and restarts.
THEOREM LevelsStayTogether == Spec => []LevelsAgree
  <1>1. IInv => LevelsAgree
    BY DEF IInv, CacheOK, RestOK, TablesOK, LevelOK, Result, Agree, LevelsAgree, TypeOK
  <1>2. QED
    BY Inductive, <1>1, PTL

\* AgeIsBounded, of query-cache.ts and cache-service.ts: a result with a time
\* to live that was written to the cache service is not served for longer than
\* that; one that was promoted from the adapter, by a cache service that has a
\* time to live of its own, not for longer than the two together.
THEOREM AgeStaysBounded == Spec => []AgeIsBounded
  <1>1. IInv => AgeIsBounded
    <2> SUFFICES ASSUME IInv, NEW k \in QueryKeys, l1[k] # Null, l1[k].ttl > 0
                 PROVE  LET Within(extra) == \/ now < l1[k].storedAt + l1[k].ttl + extra
                                             \/ deadline[k] = now
                        IN  /\ origin[k] = "set" => Within(0)
                            /\ origin[k] = "promoted" /\ DefaultTTL > 0 => Within(DefaultTTL)
      BY DEF AgeIsBounded
    <2>1. /\ now \in Nat /\ deadline[k] \in Nat \cup {Null}
          /\ deadline[k] # Null => now <= deadline[k]
          /\ origin[k] \in {"set", "promoted"} =>
                Result(l1[k], now) /\ Timed(l1[k], deadline[k], origin[k])
      BY DEF IInv, CacheOK, LevelOK
    <2>2. ASSUME origin[k] = "set"
          PROVE  now < l1[k].storedAt + l1[k].ttl + 0 \/ deadline[k] = now
      <3>1. /\ l1[k].storedAt \in Nat /\ l1[k].ttl \in Int
            /\ deadline[k] = l1[k].storedAt + l1[k].ttl
        BY <2>1, <2>2 DEF Result, Timed
      <3>2. QED
        BY <2>1, <3>1, AdapterAssumption
    <2>3. ASSUME origin[k] = "promoted", DefaultTTL > 0
          PROVE  now < l1[k].storedAt + l1[k].ttl + DefaultTTL \/ deadline[k] = now
      <3>1. /\ l1[k].storedAt \in Nat /\ l1[k].ttl \in Int /\ deadline[k] # Null
            /\ deadline[k] <= l1[k].storedAt + l1[k].ttl + DefaultTTL
        BY <2>1, <2>3 DEF Result, Timed
      <3>2. QED
        BY <2>1, <3>1, TTLAssumption
    <2>4. QED
      BY <2>2, <2>3
  <1>2. QED
    BY Inductive, <1>1, PTL

-----------------------------------------------------------------------------
(* The refinement: the tables are a map of entries with tags.              *)

\* What the abstract map takes for an entry that is absent is not one.
NullIsNoEntry == \A v, t, e : [value |-> v, tags |-> t, expires |-> e] # Null

Entries == [id \in Ids |-> Entry(id)]

LEMMA LiveIsEntry ==
    ASSUME NullIsNoEntry, NEW id
    PROVE  Entry(id) # Null <=> id \in Live(db, now)
  BY DEF NullIsNoEntry, Entry

\* A deletion of rows.
LEMMA DeleteEntries ==
    ASSUME NEW R, db' = Delete(db, R), UNCHANGED now
    PROVE  /\ \A id \in Ids : Entry(id)' = IF id \in R THEN Null ELSE Entry(id)
           /\ R \cap Live(db, now) = {} => Entries' = Entries
  <1>1. /\ Live(db', now) = Live(db, now) \ R
        /\ \A id \in Live(db, now) \ R : db'.kv[id] = db.kv[id]
    <2>1. Live(db', now) = Live(db, now) \ R
      BY DeleteKeeps
    <2>2. \A id \in Stored(db) \ R : db'.kv[id] = db.kv[id]
      BY DeleteKeeps, ZenonT(30)
    <2>3. QED
      BY <2>1, <2>2 DEF Live
  <1>2. \A id \in Ids \ R : TagsOf(db', id) = TagsOf(db, id)
    BY DEF Delete, TagsOf
  <1>3. \A id \in Ids : Entry(id)' = IF id \in R THEN Null ELSE Entry(id)
    BY <1>1, <1>2 DEF Entry
  <1>4. ASSUME R \cap Live(db, now) = {}
        PROVE  \A id \in Ids : Entry(id)' = Entry(id)
    BY <1>3, <1>4 DEF Entry
  <1>5. QED
    BY <1>3, <1>4 DEF Entries

\* A write of rows.
LEMMA UpsertEntries ==
    ASSUME TablesOK(db, now), now \in Nat, NEW rows, DOMAIN rows \subseteq Ids,
           \A id \in DOMAIN rows : rows[id].ttl \in Int \cup {Null},
           db' = Upsert(db, rows, now), UNCHANGED now
    PROVE  \A id \in Ids : Entry(id)' =
              IF id \in DOMAIN rows
              THEN [value |-> rows[id].value, tags |-> Tags \cap Range(rows[id].tags),
                    expires |-> ExpiresAt(rows[id].ttl, now)]
              ELSE Entry(id)
  <1>1. /\ Stored(db') = Stored(db) \cup DOMAIN rows
        /\ \A id \in Stored(db) \ DOMAIN rows : db'.kv[id] = db.kv[id]
        /\ \A id \in DOMAIN rows :
              /\ db'.kv[id].value = rows[id].value
              /\ db'.kv[id].expires_at = ExpiresAt(rows[id].ttl, now)
    BY UpsertWrites
  <1>2. ASSUME NEW id \in DOMAIN rows
        PROVE  id \in Live(db', now) /\ TagsOf(db', id) = Tags \cap Range(rows[id].tags)
    <2>1. ExpiresAt(rows[id].ttl, now) # Null => ExpiresAt(rows[id].ttl, now) > now
      <3>1. rows[id].ttl \in Int \cup {Null}
        BY <1>2
      <3>2. QED
        BY <3>1 DEF ExpiresAt
    <2>2. ExpiresAt(rows[id].ttl, now) \in Nat \cup {Null}
      BY <1>2, ExpiryType
    <2>3. id \in Live(db', now)
      BY <1>1, <1>2, <2>1, <2>2 DEF Live, isExpired
    <2>4. \A t \in Tags : <<id, t>> \in db'.kv_tags <=> t \in Range(rows[id].tags)
      BY <1>2 DEF Upsert, TagsReplaced
    <2>5. QED
      BY <2>3, <2>4 DEF TagsOf
  <1>3. ASSUME NEW id \in Ids, id \notin DOMAIN rows
        PROVE  /\ id \in Live(db', now) <=> id \in Live(db, now)
               /\ id \in Live(db, now) => db'.kv[id] = db.kv[id]
               /\ TagsOf(db', id) = TagsOf(db, id)
    <2>1. \A t \in Tags : <<id, t>> \in db'.kv_tags <=> <<id, t>> \in db.kv_tags
      BY <1>3 DEF Upsert, TagsReplaced
    <2>2. QED
      BY <1>1, <1>3, <2>1 DEF TagsOf, Live, isExpired
  <1>4. QED
    BY <1>1, <1>2, <1>3 DEF Entry

\* Time passes.
LEMMA TickEntries ==
    ASSUME NullIsNoEntry, TablesOK(db, now), now \in Nat, now' = now + 1, UNCHANGED db
    PROVE  \A id \in Ids : Entry(id)' =
              IF Entry(id) # Null /\ Entry(id).expires = now' THEN Null ELSE Entry(id)
  <1> SUFFICES ASSUME NEW id \in Ids
               PROVE  Entry(id)' = IF Entry(id) # Null /\ Entry(id).expires = now' THEN Null
                                   ELSE Entry(id)
    OBVIOUS
  <1>1. CASE id \notin Stored(db)
    BY <1>1 DEF Entry, Live
  <1>2. CASE id \in Stored(db)
    <2>1. db.kv[id].expires_at \in Nat \cup {Null} /\ Null \notin Int
      BY <1>2, AdapterAssumption DEF TablesOK
    <2>2. id \in Live(db, now') <=> id \in Live(db, now) /\ db.kv[id].expires_at # now'
      <3>1. CASE db.kv[id].expires_at = Null
        BY <1>2, <2>1, <3>1 DEF Live, isExpired
      <3>2. CASE db.kv[id].expires_at \in Nat
        BY <1>2, <2>1, <3>2 DEF Live, isExpired
      <3>3. QED
        BY <2>1, <3>1, <3>2
    <2>3. id \in Live(db, now) => Entry(id).expires = db.kv[id].expires_at
      BY DEF Entry
    <2>4. QED
      BY <2>2, <2>3, LiveIsEntry DEF Entry
  <1>3. QED
    BY <1>1, <1>2

\* The two ways in which the tables change.
Removes == \E R : db' = Delete(db, R)

Rewrites ==
    \E rows :
        /\ DOMAIN rows \subseteq Ids
        /\ \A id \in DOMAIN rows : rows[id].ttl \in Int \cup {Null}
        /\ db' = Upsert(db, rows, now)

\* A step of the tables is a write of some rows, a deletion of some, or none.
LEMMA StepOfTables ==
    ASSUME IInv, Next, ~Tick
    PROVE  UNCHANGED now /\ (db' = db \/ Removes \/ Rewrites)
  <1> DEFINE Goal == UNCHANGED now /\ (db' = db \/ Removes \/ Rewrites)
  <1>1. ASSUME NEW k, Lookup(k) PROVE db' = db \/ Removes
    BY <1>1 DEF Lookup, Touched, Removes
  <1>2. ASSUME NEW k \in QueryKeys, NEW data, NEW ttl \in Int, NEW tags, SetBoth(k, data, ttl, tags)
        PROVE  db' = db \/ Rewrites
    <2> DEFINE rows == [id \in {k} |-> [value |-> Envelope(data, ttl), ttl |-> ttl, tags |-> tags]]
    <2>1. db' = db \/ db' = Upsert(db, rows, now)
      BY <1>2 DEF SetBoth
    <2>2. DOMAIN rows \subseteq Ids /\ \A id \in DOMAIN rows : rows[id].ttl \in Int \cup {Null}
      BY KeysAssumption
    <2> HIDE DEF rows
    <2>3. QED
      BY <2>1, <2>2 DEF Rewrites
  <1>3. ASSUME NEW rows, DOMAIN rows \subseteq PlainKeys, \A id \in DOMAIN rows : rows[id] \in Rows,
               db' = Upsert(db, rows, now)
        PROVE  Rewrites
    <2>1. DOMAIN rows \subseteq Ids /\ \A id \in DOMAIN rows : rows[id].ttl \in Int \cup {Null}
      BY <1>3, KeysAssumption, InputAssumption
    <2>2. QED
      BY <1>3, <2>1 DEF Rewrites
  <1>4. ASSUME NEW k \in QueryKeys, ReadCache(k) PROVE Goal
    BY <1>1, <1>4 DEF ReadCache
  <1>5. ASSUME NEW k \in QueryKeys, Evict(k) \/ Expire(k) \/ Invalidate(k) PROVE Goal
    BY <1>5 DEF Evict, Expire, Invalidate, Removes
  <1>6. ASSUME NEW tags, InvalidateByTags(tags) PROVE Goal
    BY <1>6 DEF InvalidateByTags, DeleteByTags, Removes
  <1>7. ASSUME NEW r \in Requests, WriteCache(r) PROVE Goal
    <2> DEFINE ttl == IF r.ttl = Null THEN QueryTTL ELSE r.ttl
    <2>1. ttl \in Int /\ r.key \in QueryKeys
      BY InputAssumption, TTLAssumption
    <2>2. SetBoth(r.key, version, ttl, r.tags) /\ UNCHANGED now
      BY <1>7 DEF WriteCache
    <2> HIDE DEF ttl
    <2>3. db' = db \/ Rewrites
      BY <1>2, <2>1, <2>2
    <2>4. QED
      BY <2>2, <2>3
  <1>8. ASSUME NEW c \in Clients, NEW n \in Connectors, NEW r \in Requests, Query(c, n, r)
        PROVE  Goal
    <2>1. UNCHANGED now /\ (db' = db \/ Lookup(r.key))
      BY <1>8 DEF Query
    <2>2. QED
      BY <1>1, <2>1
  <1>9. ASSUME NEW c \in Clients, Answers(c) PROVE Goal
    <2> DEFINE config == pending[c].config
               r == pending[c].request
    <2>1. UNCHANGED now /\ config \in Configs /\ r \in Requests
      BY <1>9 DEF Answers, IInv, RestOK, Asking
    <2>2. \/ db' = db
          \/ SetBoth(r.key, pending[c].data, CachedTTL(config, r), config.defaultTags \o r.tags)
      BY <1>9 DEF Answers
    <2> HIDE DEF config, r
    <2>3. r.key \in QueryKeys /\ CachedTTL(config, r) \in Int
      BY <2>1, InputAssumption, CachedTTLType
    <2>4. QED
      BY <1>2, <2>1, <2>2, <2>3
  <1>10. ASSUME NEW id \in PlainKeys, NEW row \in Rows, DbSet(id, row) PROVE Goal
    <2> DEFINE rows == [x \in {id} |-> row]
    <2>1. db' = Upsert(db, rows, now) /\ UNCHANGED now
      BY <1>10 DEF DbSet, Storage
    <2>2. DOMAIN rows \subseteq PlainKeys /\ \A x \in DOMAIN rows : rows[x] \in Rows
      OBVIOUS
    <2> HIDE DEF rows
    <2>3. Rewrites
      BY <1>3, <2>1, <2>2
    <2>4. QED
      BY <2>1, <2>3
  <1>11. ASSUME NEW S \in SUBSET PlainKeys, NEW rows \in [S -> Rows], DbMSet(rows) PROVE Goal
    <2>1. db' = Upsert(db, rows, now) /\ UNCHANGED now
      BY <1>11 DEF DbMSet, Storage
    <2>2. QED
      BY <1>3, <2>1
  <1>12. ASSUME NEW S, DbGet(S) \/ DbDelete(S) \/ DbClear(S) PROVE Goal
    BY <1>12 DEF DbGet, DbDelete, DbClear, Storage, Touched, Removes
  <1>13. ASSUME NEW S, NEW tags, DbDeleteByTags(S, tags) PROVE Goal
    BY <1>13 DEF DbDeleteByTags, Storage, DeleteByTags, Removes
  <1>14. CASE Purge
    BY <1>14 DEF Purge, Storage, PurgeExpired, Removes
  <1>15. CASE \/ \E n \in Connectors : Unregister(n) \/ \E config \in Configs : Register(n, config)
              \/ \E c \in Clients : Executes(c) \/ Fails(c)
              \/ ChangedElsewhere \/ Flush \/ Close
              \/ \E snapshot \in Snapshots : Upload(snapshot) \/ Restart(snapshot)
    BY <1>15 DEF Register, Unregister, Executes, Fails, ChangedElsewhere, Close, Flush,
                 Upload, Restart
  <1>16. CASE \E k \in QueryKeys : Evict(k) \/ Expire(k) \/ Invalidate(k) \/ ReadCache(k)
    BY <1>4, <1>5, <1>16
  <1>17. CASE \E c \in Clients :
                 \/ \E n \in Connectors, r \in Requests : Query(c, n, r)
                 \/ Executes(c) \/ Answers(c) \/ Fails(c)
    BY <1>8, <1>9, <1>15, <1>17
  <1>18. CASE \/ \E S \in SUBSET PlainKeys : DbGet(S) \/ DbDelete(S)
              \/ \E S \in {QueryKeys, PlainKeys, Ids} : DbClear(S)
              \/ \E S \in {PlainKeys, Ids}, tags \in TagLists : DbDeleteByTags(S, tags)
    BY <1>12, <1>13, <1>18
  <1>19. CASE \/ \E id \in PlainKeys, row \in Rows : DbSet(id, row)
              \/ \E S \in SUBSET PlainKeys : \E rows \in [S -> Rows] : DbMSet(rows)
    BY <1>10, <1>11, <1>19
  <1>20. CASE \/ \E tags \in TagLists : InvalidateByTags(tags)
              \/ \E r \in Requests : WriteCache(r)
    BY <1>6, <1>7, <1>20
  <1>21. QED
    BY <1>14, <1>15, <1>16, <1>17, <1>18, <1>19, <1>20 DEF Next

LEMMA StepRefines ==
    ASSUME NullIsNoEntry, IInv, [Next]_vars
    PROVE  [Interface!Next]_(Interface!vars)
  <1>1. TablesOK(db, now) /\ now \in Nat
    BY DEF IInv, CacheOK
  <1>2. CASE db' = db /\ now' = now
    <2>1. \A id \in Ids : Entry(id)' = Entry(id)
      BY <1>2 DEF Entry
    <2>2. QED
      BY <1>2, <2>1 DEF Interface!vars
  <1>3. ASSUME NEW R, db' = Delete(db, R), UNCHANGED now
        PROVE  Interface!Next
    <2>1. \A id \in Ids : Entry(id)' = IF id \in R THEN Null ELSE Entry(id)
      BY <1>3, DeleteEntries
    <2>2. Interface!Remove(Ids \cap R)
      BY <1>3, <2>1 DEF Interface!Remove
    <2>3. QED
      BY <2>2 DEF Interface!Next
  <1>4. ASSUME NEW rows, DOMAIN rows \subseteq Ids,
               \A id \in DOMAIN rows : rows[id].ttl \in Int \cup {Null},
               db' = Upsert(db, rows, now), UNCHANGED now
        PROVE  Interface!Next
    <2> DEFINE S == DOMAIN rows
    <2>1. \A id \in Ids : Entry(id)' =
             IF id \in S
             THEN [value |-> rows[id].value, tags |-> Tags \cap Range(rows[id].tags),
                   expires |-> ExpiresAt(rows[id].ttl, now)]
             ELSE Entry(id)
      BY <1>1, <1>4, UpsertEntries
    <2>2. S \subseteq Ids /\ now' = now
      BY <1>4
    <2>3. \A id \in S : Entry(id)' # Null /\ Entry(id)'.tags \subseteq Tags
      BY <2>1, <2>2 DEF NullIsNoEntry
    <2> HIDE DEF S
    <2>4. Interface!Write([id \in S |-> Entries'[id]])
      BY <2>1, <2>2 DEF Interface!Write, Entries
    <2>5. \A id \in S : Entries'[id] # Null /\ Entries'[id].tags \subseteq Tags
      BY <2>2, <2>3 DEF Entries
    <2>6. QED
      BY <2>2, <2>4, <2>5 DEF Interface!Next, Entries
  <1>5. CASE Tick
    <2>1. now' = now + 1 /\ db' = db
      BY <1>5 DEF Tick
    <2>2. \A id \in Ids : Entry(id)' =
             IF Entry(id) # Null /\ Entry(id).expires = now' THEN Null ELSE Entry(id)
      BY <1>1, <2>1, TickEntries
    <2>3. Interface!Tick
      BY <2>1, <2>2 DEF Interface!Tick
    <2>4. QED
      BY <2>3 DEF Interface!Next
  <1>6. CASE Next /\ ~Tick
    <2>1. UNCHANGED now /\ (db' = db \/ Removes \/ Rewrites)
      BY <1>6, StepOfTables
    <2>2. CASE Removes
      BY <2>1, <2>2, <1>3 DEF Removes
    <2>3. CASE Rewrites
      BY <2>1, <2>3, <1>4 DEF Rewrites
    <2>4. QED
      BY <2>1, <2>2, <2>3, <1>2
  <1>7. QED
    BY <1>2, <1>5, <1>6 DEF vars

LEMMA StepIsExact ==
    ASSUME NullIsNoEntry, IInv, [Next]_vars
    PROVE  MethodsAreExact
  <1>1. TablesOK(db, now) /\ now \in Nat /\ l1 = [k \in QueryKeys |-> l1[k]]
    BY DEF IInv, CacheOK, LevelOK
  <1>2. ASSUME NEW id \in PlainKeys, NEW row \in Rows, DbSet(id, row)
        PROVE  Interface!Write([x \in {id} |-> AsEntry(row)])
    <2> DEFINE rows == [x \in {id} |-> row]
    <2>1. db' = Upsert(db, rows, now) /\ UNCHANGED now
      BY <1>2 DEF DbSet, Storage
    <2>2. /\ DOMAIN rows \subseteq Ids /\ \A x \in DOMAIN rows : rows[x].ttl \in Int \cup {Null}
          /\ Tags \cap Range(row.tags) = Range(row.tags)
      BY KeysAssumption, InputAssumption DEF Range
    <2>3. /\ DOMAIN rows = {id} /\ rows[id] = row
      OBVIOUS
    <2> HIDE DEF rows
    <2>4. \A x \in Ids : Entry(x)' =
             IF x \in DOMAIN rows
             THEN [value |-> rows[x].value, tags |-> Tags \cap Range(rows[x].tags),
                   expires |-> ExpiresAt(rows[x].ttl, now)]
             ELSE Entry(x)
      BY <1>1, <2>1, <2>2, UpsertEntries
    <2>5. \A x \in Ids : Entry(x)' = IF x \in {id} THEN AsEntry(row) ELSE Entry(x)
      BY <2>2, <2>3, <2>4 DEF AsEntry
    <2>6. QED
      BY <2>1, <2>5 DEF Interface!Write
  <1>3. ASSUME NEW r \in Requests, WriteCache(r), r.key \notin torn'
        PROVE  Interface!Write([x \in {r.key} |->
                   AsEntry([value |-> l1'[x], ttl |-> l1'[x].ttl, tags |-> r.tags])])
    <2> DEFINE k == r.key
               ttl == IF r.ttl = Null THEN QueryTTL ELSE r.ttl
               envelope == Envelope(version, ttl)
               written == [value |-> envelope, ttl |-> ttl, tags |-> r.tags]
               rows == [id \in {k} |-> written]
    <2>1. ttl \in Int /\ k \in QueryKeys /\ k \in Ids
      BY InputAssumption, TTLAssumption, KeysAssumption
    <2>2. SetBoth(k, version, ttl, r.tags) /\ UNCHANGED now
      BY <1>3 DEF WriteCache
    <2>3. db' = Upsert(db, rows, now)
      BY <1>3, <2>2 DEF SetBoth
    <2>4. l1' = [l1 EXCEPT ![k] = envelope]
      BY <2>2 DEF SetBoth, MemSet
    <2>5. l1'[k] = envelope /\ envelope.ttl = ttl
      BY <1>1, <2>1, <2>4 DEF Envelope
    <2>6. Tags \cap Range(r.tags) = Range(r.tags)
      BY InputAssumption DEF Range
    <2>7. /\ DOMAIN rows = {k} /\ rows[k] = written
          /\ written.value = envelope /\ written.ttl = ttl /\ written.tags = r.tags
      OBVIOUS
    <2>8. written = [value |-> l1'[k], ttl |-> l1'[k].ttl, tags |-> r.tags]
      BY <2>5
    <2> HIDE DEF rows, written, envelope, ttl
    <2>9. \A x \in Ids : Entry(x)' =
             IF x \in DOMAIN rows
             THEN [value |-> rows[x].value, tags |-> Tags \cap Range(rows[x].tags),
                   expires |-> ExpiresAt(rows[x].ttl, now)]
             ELSE Entry(x)
      BY <1>1, <2>1, <2>2, <2>3, <2>7, UpsertEntries
    <2>10. \A x \in Ids : Entry(x)' = IF x \in {k} THEN AsEntry(written) ELSE Entry(x)
      BY <2>6, <2>7, <2>9 DEF AsEntry
    <2> HIDE DEF k
    <2>11. Interface!Write([x \in {k} |-> AsEntry(written)])
      BY <2>2, <2>10 DEF Interface!Write
    <2>12. [x \in {k} |-> AsEntry(written)] =
           [x \in {k} |-> AsEntry([value |-> l1'[x], ttl |-> l1'[x].ttl, tags |-> r.tags])]
      BY <2>8
    <2>13. QED
      BY <2>11, <2>12 DEF k
  <1>4. ASSUME NEW S \in {PlainKeys, Ids}, NEW tags \in TagLists, DbDeleteByTags(S, tags)
        PROVE  Interface!Remove(S \cap Interface!Tagged(tags))
    <2> DEFINE R == {id \in Stored(db) \cap S : TagsOf(db, id) \cap tags # {}}
               T == S \cap {id \in Ids : Entry(id) # Null /\ Entry(id).tags \cap tags # {}}
    <2>1. db' = Delete(db, R) /\ UNCHANGED now
      BY <1>4 DEF DbDeleteByTags, Storage, DeleteByTags
    <2>2. \A id \in Ids : Entry(id)' = IF id \in R THEN Null ELSE Entry(id)
      BY <2>1, DeleteEntries
    <2>3. \A id \in Live(db, now) : Entry(id).tags = TagsOf(db, id) /\ id \in Stored(db)
      BY DEF Entry, Live
    <2>4. \A id \in Ids : id \in Live(db, now) => (id \in R <=> id \in T)
      BY <2>3, LiveIsEntry
    <2>5. \A id \in Ids \ Live(db, now) : Entry(id) = Null
      BY DEF Entry
    <2> HIDE DEF R
    <2>6. \A id \in Ids : Entry(id)' = IF id \in T THEN Null ELSE Entry(id)
      BY <2>2, <2>4, <2>5
    <2>7. S \cap Interface!Tagged(tags) = T
      BY DEF Interface!Tagged
    <2> HIDE DEF T
    <2>8. Interface!Remove(T)
      BY <2>1, <2>6 DEF Interface!Remove
    <2>9. QED
      BY <2>7, <2>8
  <1>5. ASSUME Purge \/ (\E k \in QueryKeys : ReadCache(k)) \/ (\E S \in SUBSET PlainKeys : DbGet(S))
        PROVE  UNCHANGED Interface!vars
    <2>1. /\ UNCHANGED now
          /\ db' = db \/ \E R : R \cap Live(db, now) = {} /\ db' = Delete(db, R)
      BY <1>5 DEF Purge, PurgeExpired, ReadCache, Lookup, DbGet, Touched, Storage
    <2>2. CASE db' = db
      <3>1. \A id \in Ids : Entry(id)' = Entry(id)
        BY <2>1, <2>2 DEF Entry
      <3>2. QED
        BY <2>1, <3>1 DEF Interface!vars
    <2>3. ASSUME NEW R, R \cap Live(db, now) = {}, db' = Delete(db, R)
          PROVE  UNCHANGED Interface!vars
      BY <2>1, <2>3, DeleteEntries DEF Interface!vars, Entries
    <2>4. QED
      BY <2>1, <2>2, <2>3
  <1>6. QED
    BY <1>2, <1>3, <1>4, <1>5 DEF MethodsAreExact

\* ImplementsStore, of every method of sqlite-adapter.ts as the proxy, the
\* query cache and the storage routes call it: a map with tags and deadlines.
THEOREM AdapterImplementsStore == ASSUME NullIsNoEntry PROVE Spec => ImplementsStore
  <1>1. Init => Interface!Init
    <2> SUFFICES ASSUME Init PROVE Interface!Init
      OBVIOUS
    <2>1. \A id \in Ids : Entry(id) = Null
      BY DEF Init, NoRows, Entry, Live, Stored
    <2>2. QED
      BY <2>1 DEF Init, Interface!Init
  <1>2. IInv /\ [Next]_vars => [Interface!Next]_(Interface!vars)
    BY StepRefines
  <1>3. IInv /\ [Next]_vars => [MethodsAreExact]_vars
    BY StepIsExact
  <1>4. QED
    BY Inductive, <1>1, <1>2, <1>3, PTL DEF Spec, ImplementsStore, Interface!Spec

-----------------------------------------------------------------------------
(* The write-behind buffer.                                                *)

\* The order of all that a write passes through: what a database executed
\* comes before what it has still to execute, the write being executed before
\* those of its connector in the batch, and the batch before the buffer.
Ordered(acc, buf, bat, cur, app) ==
    /\ \A b \in buf, w \in bat \cup {cur} : w < b
    /\ \A w \in bat : cur # 0 /\ w # cur /\ (acc[w] = acc[cur] => cur < w)
    /\ \A c \in Databases : \A i \in DOMAIN app[c] :
          \A w \in buf \cup bat \cup ({cur} \ {0}) : acc[w] = c => app[c][i] <= w
    /\ \A c \in Databases : \A i, j \in DOMAIN app[c] :
          i <= j => app[c][i] <= app[c][j]

BufferInv ==
    /\ BufferTypeOK
    /\ Ordered(accepted, buffer, batch, current, applied)
    /\ EveryWriteIsCounted

-----------------------------------------------------------------------------
(* What the steps of a write do to the order.                              *)

\* Accepting a write: it comes after all others.
LEMMA AcceptKeepsOrder ==
    ASSUME NEW acc \in Seq(Databases), NEW c \in Databases,
           NEW buf \in SUBSET (1..Len(acc)), NEW bat \in SUBSET (1..Len(acc)),
           NEW cur \in (1..Len(acc)) \cup {0},
           NEW app \in [Databases -> Seq(1..Len(acc))],
           Ordered(acc, buf, bat, cur, app)
    PROVE  Ordered(Append(acc, c), buf \cup {Len(acc) + 1}, bat, cur, app)
  <1> DEFINE n == Len(acc) + 1
             new == Append(acc, c)
  <1>1. \A w \in 1..Len(acc) : new[w] = acc[w] /\ w < n
    OBVIOUS
  <1>2. \A b \in buf \cup {n}, w \in bat \cup {cur} : w < b
    BY <1>1 DEF Ordered
  <1>3. \A w \in bat : cur # 0 /\ w # cur /\ (new[w] = new[cur] => cur < w)
    BY <1>1 DEF Ordered
  <1>4. \A d \in Databases : \A i \in DOMAIN app[d] : app[d][i] \in 1..Len(acc)
    OBVIOUS
  <1>5. ASSUME NEW d \in Databases, NEW i \in DOMAIN app[d],
               NEW w \in (buf \cup {n}) \cup bat \cup ({cur} \ {0}), new[w] = d
        PROVE  app[d][i] <= w
    <2>1. CASE w = n
      BY <2>1, <1>4
    <2>2. CASE w # n
      <3>1. w \in buf \cup bat \cup ({cur} \ {0}) /\ acc[w] = d
        BY <2>2, <1>5, <1>1
      <3>2. QED
        BY <3>1 DEF Ordered
    <2>3. QED
      BY <2>1, <2>2
  <1>6. QED
    BY <1>2, <1>3, <1>5 DEF Ordered

\* Starting a flush: the first of the writes that wait is executed first.
LEMMA TakeKeepsOrder ==
    ASSUME NEW acc \in Seq(Databases), NEW buf \in SUBSET (1..Len(acc)), NEW app,
           Ordered(acc, buf, {}, 0, app),
           NEW w \in buf, First(w, buf)
    PROVE  Ordered(acc, {}, buf \ {w}, w, app)
  <1>1. \A x \in buf \ {w} : w # 0 /\ x # w /\ (acc[x] = acc[w] => w < x)
    BY DEF First
  <1>2. buf = {} \cup (buf \ {w}) \cup ({w} \ {0})
    OBVIOUS
  <1>3. QED
    BY <1>1, <1>2 DEF Ordered

\* Going on to the next write of the batch.
LEMMA AdvanceKeepsOrder ==
    ASSUME NEW acc \in Seq(Databases), NEW buf \in SUBSET (1..Len(acc)),
           NEW bat \in SUBSET (1..Len(acc)), NEW cur \in 1..Len(acc), NEW app,
           Ordered(acc, buf, bat, cur, app),
           NEW w \in bat,
           LET same == {x \in bat : acc[x] = acc[cur]}
           IN  First(w, IF same # {} THEN same ELSE bat)
    PROVE  Ordered(acc, buf, bat \ {w}, w, app)
  <1> DEFINE same == {x \in bat : acc[x] = acc[cur]}
  <1>1. ASSUME NEW x \in bat \ {w}, acc[x] = acc[w]
        PROVE  w < x
    <2>1. CASE same # {}
      <3>1. w \in same /\ \A y \in same : w <= y
        BY <2>1 DEF First
      <3>2. x \in same
        BY <3>1, <1>1
      <3>3. QED
        BY <3>1, <3>2
    <2>2. CASE same = {}
      <3>1. \A y \in bat : w <= y
        BY <2>2 DEF First
      <3>2. QED
        BY <3>1
    <2>3. QED
      BY <2>1, <2>2
  <1>2. \A b \in buf, x \in (bat \ {w}) \cup {w} : x < b
    BY DEF Ordered
  <1>3. \A x \in bat \ {w} : w # 0 /\ x # w /\ (acc[x] = acc[w] => w < x)
    BY <1>1
  <1>4. buf \cup (bat \ {w}) \cup ({w} \ {0}) \subseteq buf \cup bat \cup ({cur} \ {0})
    OBVIOUS
  <1>5. QED
    BY <1>2, <1>3, <1>4 DEF Ordered

\* Ending a flush.
LEMMA EndKeepsOrder ==
    ASSUME NEW acc \in Seq(Databases), NEW buf \in SUBSET (1..Len(acc)),
           NEW cur, NEW app, Ordered(acc, buf, {}, cur, app)
    PROVE  Ordered(acc, buf, {}, 0, app)
  <1>1. \A b \in buf, w \in {} \cup {0} : w < b
    OBVIOUS
  <1>2. QED
    BY <1>1 DEF Ordered

LEMMA BeforeTheLast ==
    ASSUME NEW n \in Nat, NEW i \in 1..(n + 1), NEW j \in 1..(n + 1), i <= j, j # n + 1
    PROVE  i \in 1..n /\ j \in 1..n
  OBVIOUS

\* A database executes the current write.
LEMMA ApplyKeepsOrder ==
    ASSUME NEW acc \in Seq(Databases), NEW buf \in SUBSET (1..Len(acc)),
           NEW bat \in SUBSET (1..Len(acc)), NEW cur \in 1..Len(acc),
           NEW app \in [Databases -> Seq(1..Len(acc))],
           Ordered(acc, buf, bat, cur, app)
    PROVE  LET new == [app EXCEPT ![acc[cur]] = Append(@, cur)]
           IN  new \in [Databases -> Seq(1..Len(acc))] /\ Ordered(acc, buf, bat, cur, new)
  <1> DEFINE k == acc[cur]
             new == [app EXCEPT ![k] = Append(@, cur)]
  <1>1. k \in Databases
    OBVIOUS
  <1>2. new \in [Databases -> Seq(1..Len(acc))]
    BY <1>1
  <1>3. \A c \in Databases : c # k => new[c] = app[c]
    OBVIOUS
  <1>4. /\ DOMAIN app[k] = 1..Len(app[k])
        /\ DOMAIN new[k] = 1..(Len(app[k]) + 1)
        /\ \A i \in 1..Len(app[k]) : new[k][i] = app[k][i]
        /\ new[k][Len(app[k]) + 1] = cur
        /\ Len(app[k]) \in Nat
        /\ \A i \in 1..Len(app[k]) : app[k][i] \in 1..Len(acc)
    BY <1>1
  <1>5. \A i \in 1..Len(app[k]) : app[k][i] <= cur
    BY <1>1, <1>4 DEF Ordered
  <1>6. \A w \in buf \cup bat \cup ({cur} \ {0}) : acc[w] = k => cur <= w
    BY DEF Ordered
  <1>7. ASSUME NEW c \in Databases, NEW i \in DOMAIN new[c],
               NEW w \in buf \cup bat \cup ({cur} \ {0}), acc[w] = c
        PROVE  new[c][i] <= w
    <2>1. CASE c # k
      BY <2>1, <1>3, <1>7 DEF Ordered
    <2>2. CASE c = k /\ i = Len(app[k]) + 1
      BY <2>2, <1>4, <1>6, <1>7
    <2>3. CASE c = k /\ i # Len(app[k]) + 1
      <3>1. i \in 1..Len(app[k])
        BY <2>3, <1>4
      <3>2. app[k][i] <= w
        BY <3>1, <1>1, <1>4, <1>7, <2>3 DEF Ordered
      <3>3. QED
        BY <3>1, <3>2, <1>4, <2>3
    <2>4. QED
      BY <2>1, <2>2, <2>3
  <1>8. ASSUME NEW c \in Databases, NEW i \in DOMAIN new[c], NEW j \in DOMAIN new[c],
               i <= j
        PROVE  new[c][i] <= new[c][j]
    <2>1. CASE c # k
      BY <2>1, <1>3, <1>8 DEF Ordered
    <2>2. CASE c = k
      <3>1. CASE j = Len(app[k]) + 1
        BY <3>1, <2>2, <1>4, <1>5, <1>8
      <3>2. CASE j # Len(app[k]) + 1
        <4>1. i \in 1..Len(app[k]) /\ j \in 1..Len(app[k])
          <5>1. i \in 1..(Len(app[k]) + 1) /\ j \in 1..(Len(app[k]) + 1)
            BY <2>2, <1>4
          <5>2. Len(app[k]) \in Nat /\ i <= j
            BY <1>4, <1>8
          <5>3. QED
            BY <5>1, <5>2, <3>2, BeforeTheLast
        <4>2. app[k][i] <= app[k][j]
          BY <4>1, <1>1, <1>4, <1>8 DEF Ordered
        <4>3. QED
          BY <4>1, <4>2, <2>2, <1>4
      <3>3. QED
        BY <3>1, <3>2
    <2>3. QED
      BY <2>1, <2>2
  <1>9. QED
    BY <1>2, <1>7, <1>8 DEF Ordered

-----------------------------------------------------------------------------
(* What they do to the counts.                                             *)

\* All sets of writes are finite.
LEMMA WritesFinite ==
    ASSUME NEW n \in Nat, NEW S \in SUBSET (1..n)
    PROVE  IsFiniteSet(S) /\ Cardinality(S) \in Nat
  <1>1. 1 \in Int /\ n \in Int
    OBVIOUS
  <1>2. IsFiniteSet(1..n)
    BY <1>1, FS_Interval
  <1>3. IsFiniteSet(S)
    BY <1>2, FS_Subset
  <1>4. QED
    BY <1>3, FS_CardinalityType

LEMMA SettledIsNat ==
    ASSUME NEW c \in Count
    PROVE  Settled(c) \in Nat
  BY DEF Count, Settled

\* The flight of a flush is its batch and the current write.
Flight(bat, cur) == bat \cup ({cur} \ {0})

LEMMA FlightGrows ==
    ASSUME NEW n \in Nat, NEW bat \in SUBSET (1..n), NEW cur \in 1..n, cur \notin bat
    PROVE  Cardinality(Flight(bat, cur)) = Cardinality(bat) + 1
  <1>1. Flight(bat, cur) = bat \cup {cur}
    BY DEF Flight
  <1>2. QED
    BY <1>1, WritesFinite, FS_AddElement

-----------------------------------------------------------------------------
(* The invariant is inductive.                                             *)

LEMMA BufferInitInv == BufferInit => BufferInv
  <1> SUFFICES ASSUME BufferInit PROVE BufferInv
    OBVIOUS
  <1>1. BufferTypeOK
    <2>1. accepted = << >> /\ << >> \in Seq(Databases)
      BY DEF BufferInit
    <2>2. applied \in [Databases -> Seq(Writes)]
      BY DEF BufferInit
    <2>3. counts \in Count /\ totals \in Count
      BY DEF BufferInit, Zero, Count
    <2>4. retryCount \in 0..RetryAttempts
      BY ConfigAssumption DEF BufferInit
    <2>5. QED
      BY <2>1, <2>2, <2>3, <2>4 DEF BufferInit, BufferTypeOK
  <1>2. Ordered(accepted, buffer, batch, current, applied)
    BY DEF BufferInit, Ordered
  <1>3. EveryWriteIsCounted
    <2>1. Cardinality({}) = 0
      BY FS_EmptySet
    <2>2. Cardinality(buffer) = 0 /\ Cardinality(batch \cup ({current} \ {0})) = 0
      <3>1. buffer = {} /\ batch \cup ({current} \ {0}) = {}
        BY DEF BufferInit
      <3>2. QED
        BY <2>1, <3>1
    <2>3. Len(accepted) = 0
      BY DEF BufferInit
    <2>4. Settled(counts) = 0 /\ Settled(totals) = 0
      BY DEF BufferInit, Zero, Settled
    <2>5. QED
      BY <2>2, <2>3, <2>4 DEF EveryWriteIsCounted
  <1>4. QED
    BY <1>1, <1>2, <1>3 DEF BufferInv

\* What waits, new write included, when a flush takes it: the buffer of a state
\* in which no flush is in progress.
Waiting(acc, waiting) ==
    /\ acc \in Seq(Databases)
    /\ applied \in [Databases -> Seq(1..Len(acc))]
    /\ waiting \subseteq 1..Len(acc)
    /\ Ordered(acc, waiting, {}, 0, applied)
    /\ Len(acc) = Cardinality(waiting) + Settled(counts) + Settled(totals)

LEMMA TakeKeepsInv ==
    ASSUME BufferTypeOK, NEW waiting, Waiting(accepted', waiting), Take(waiting),
           UNCHANGED <<totals, applied>>,
           shutdown' \in {"no", "draining", "exited"}
    PROVE  BufferInv'
  <1>1. PICK w \in waiting : /\ First(w, waiting)
                             /\ batch' = waiting \ {w}
                             /\ current' = w /\ retryCount' = 0 /\ sleeping' = FALSE
    BY DEF Take, Execute
  <1>2. w \in 1..Len(accepted') /\ w # 0
    BY DEF Waiting
  <1>3. BufferTypeOK'
    <2>1. Writes' = 1..Len(accepted')
      BY DEF Writes
    <2>2. buffer' = {} /\ flushing' = TRUE /\ counts' = counts
      BY DEF Take
    <2>3. retryCount' \in 0..RetryAttempts
      BY <1>1, ConfigAssumption
    <2>4. batch' \subseteq Writes' /\ current' \in Writes'
      BY <1>1, <1>2, <2>1 DEF Waiting
    <2>5. accepted' \in Seq(Databases) /\ applied' \in [Databases -> Seq(Writes')]
      BY <2>1 DEF Waiting
    <2>6. counts' \in Count /\ totals' \in Count
      BY <2>2 DEF BufferTypeOK
    <2>7. QED
      BY <1>1, <1>2, <2>2, <2>3, <2>4, <2>5, <2>6 DEF BufferTypeOK
  <1>4. Ordered(accepted', buffer', batch', current', applied')
    <2>1. Ordered(accepted', {}, waiting \ {w}, w, applied)
      BY <1>1, TakeKeepsOrder DEF Waiting
    <2>2. QED
      BY <2>1, <1>1 DEF Take
  <1>5. EveryWriteIsCounted'
    <2>1. Cardinality(batch' \cup ({current'} \ {0})) = Cardinality(waiting)
      <3>1. batch' \cup ({current'} \ {0}) = waiting
        BY <1>1, <1>2
      <3>2. QED
        BY <3>1
    <2>2. Cardinality(buffer') = 0
      BY FS_EmptySet DEF Take
    <2>3. Cardinality(waiting) \in Nat
      <3>1. Len(accepted') \in Nat /\ waiting \in SUBSET (1..Len(accepted'))
        BY DEF Waiting
      <3>2. QED
        BY <3>1, WritesFinite
    <2>4. Settled(counts) \in Nat /\ Settled(totals) \in Nat
      BY SettledIsNat DEF BufferTypeOK
    <2>5. Len(accepted') = Cardinality(waiting) + Settled(counts) + Settled(totals)
      BY DEF Waiting
    <2>6. counts' = counts
      BY DEF Take
    <2>7. QED
      BY <2>1, <2>2, <2>3, <2>4, <2>5, <2>6 DEF EveryWriteIsCounted
  <1>6. QED
    BY <1>3, <1>4, <1>5 DEF BufferInv

\* When no flush is in progress, what the buffer holds is waiting.
LEMMA BufferIsWaiting == BufferInv /\ ~flushing => Waiting(accepted, buffer)
  <1> SUFFICES ASSUME BufferInv, ~flushing PROVE Waiting(accepted, buffer)
    OBVIOUS
  <1>1. current = 0
    BY DEF BufferInv, BufferTypeOK
  <1>2. batch = {}
    BY <1>1 DEF BufferInv, Ordered
  <1>3. batch \cup ({current} \ {0}) = {}
    BY <1>1, <1>2
  <1>4. Cardinality(batch \cup ({current} \ {0})) = 0
    BY <1>3, FS_EmptySet
  <1>5. Len(accepted) \in Nat /\ buffer \in SUBSET (1..Len(accepted))
    BY DEF BufferInv, BufferTypeOK, Writes
  <1>6. Cardinality(buffer) \in Nat
    BY <1>5, WritesFinite
  <1>7. Len(accepted) = Cardinality(buffer) + Settled(counts) + Settled(totals)
    BY <1>4, <1>6 DEF BufferInv, EveryWriteIsCounted
  <1>8. Ordered(accepted, buffer, {}, 0, applied)
    BY <1>1, <1>2 DEF BufferInv
  <1>9. QED
    BY <1>7, <1>8 DEF BufferInv, BufferTypeOK, Waiting, Writes

LEMMA AddKeepsInv ==
    ASSUME BufferInv, NEW connector \in Databases, Add(connector) PROVE BufferInv'
  <1> DEFINE n == Len(accepted) + 1
             waiting == buffer \cup {n}
  <1>1. /\ accepted \in Seq(Databases)
        /\ buffer \in SUBSET (1..Len(accepted))
        /\ batch \in SUBSET (1..Len(accepted))
        /\ current \in (1..Len(accepted)) \cup {0}
        /\ applied \in [Databases -> Seq(1..Len(accepted))]
        /\ counts \in Count /\ totals \in Count
        /\ Ordered(accepted, buffer, batch, current, applied)
    BY DEF BufferInv, BufferTypeOK, Writes
  <1>2. /\ accepted' = Append(accepted, connector)
        /\ UNCHANGED <<totals, applied, shutdown>>
    BY DEF Add
  <1>3. /\ accepted' \in Seq(Databases)
        /\ Len(accepted') = n
        /\ 1..Len(accepted) \subseteq 1..n
        /\ waiting \subseteq 1..n
        /\ Len(accepted) \in Nat
    <2>1. accepted' \in Seq(Databases) /\ Len(accepted') = n
      BY <1>1, <1>2
    <2>2. Len(accepted) \in Nat
      BY <1>1
    <2>3. 1..Len(accepted) \subseteq 1..n /\ n \in 1..n
      BY <2>2
    <2>4. QED
      BY <1>1, <2>1, <2>2, <2>3
  <1>4. Seq(1..Len(accepted)) \subseteq Seq(1..n)
    BY <1>1
  <1>5. applied \in [Databases -> Seq(1..n)]
    BY <1>1, <1>4
  <1>6. Ordered(accepted', waiting, batch, current, applied)
    BY <1>1, <1>2, AcceptKeepsOrder
  <1>7. Cardinality(waiting) = Cardinality(buffer) + 1 /\ Cardinality(buffer) \in Nat
    <2>1. IsFiniteSet(buffer) /\ Cardinality(buffer) \in Nat
      BY <1>1, <1>3, WritesFinite
    <2>2. n \notin buffer
      BY <1>1, <1>3
    <2>3. QED
      BY <2>1, <2>2, FS_AddElement
  <1>12. Len(accepted) \in Nat /\ Cardinality(buffer) \in Nat
    BY <1>3, <1>7
  <1>11. Settled(counts) \in Nat /\ Settled(totals) \in Nat
    BY <1>1, SettledIsNat
  <1>8. CASE ~flushing /\ Take(waiting)
    <2>1. Waiting(accepted', waiting)
      <3>1. Waiting(accepted, buffer)
        BY <1>8, BufferIsWaiting
      <3>2. current = 0 /\ batch = {}
        BY <1>8 DEF BufferInv, BufferTypeOK, Ordered
      <3>3. Len(accepted') = Cardinality(waiting) + Settled(counts) + Settled(totals)
        <4>1. Len(accepted) = Cardinality(buffer) + Settled(counts) + Settled(totals)
          BY <3>1 DEF Waiting
        <4>2. Len(accepted) + 1 = (Cardinality(buffer) + 1) + Settled(counts) + Settled(totals)
          BY <4>1, <1>12, <1>11
        <4>3. QED
          BY <4>2, <1>3, <1>7
      <3>4. QED
        BY <3>2, <3>3, <1>3, <1>5, <1>6 DEF Waiting
    <2>2. QED
      BY <2>1, <1>2, <1>8, TakeKeepsInv DEF BufferInv, BufferTypeOK
  <1>9. CASE buffer' = waiting /\ UNCHANGED <<progress, counts>>
    <2>1. BufferTypeOK'
      BY <1>9, <1>2, <1>3, <1>5 DEF BufferInv, BufferTypeOK, Writes, progress
    <2>2. Ordered(accepted', buffer', batch', current', applied')
      BY <1>9, <1>2, <1>6 DEF progress
    <2>3. EveryWriteIsCounted'
      <3>1. batch \cup ({current} \ {0}) \in SUBSET (1..Len(accepted))
        BY <1>1
      <3>2. Cardinality(batch \cup ({current} \ {0})) \in Nat
        BY <1>3, <3>1, WritesFinite
      <3>3. UNCHANGED <<batch, current, counts, totals>> /\ buffer' = waiting
        BY <1>2, <1>9 DEF progress
      <3>4. EveryWriteIsCounted
        BY DEF BufferInv
      <3>5. /\ Cardinality(buffer') = Cardinality(buffer) + 1
            /\ Len(accepted') = Len(accepted) + 1
        BY <3>3, <1>3, <1>7
      <3>6. Len(accepted) + 1
              = (Cardinality(buffer) + 1) + Cardinality(batch \cup ({current} \ {0}))
                + Settled(counts) + Settled(totals)
        BY <3>2, <3>4, <1>12, <1>11 DEF EveryWriteIsCounted
      <3>7. Cardinality(batch' \cup ({current'} \ {0}))
              = Cardinality(batch \cup ({current} \ {0}))
        BY <3>3
      <3>8. counts' = counts /\ totals' = totals
        BY <3>3
      <3>9. QED
        BY <3>5, <3>6, <3>7, <3>8 DEF EveryWriteIsCounted
    <2>4. QED
      BY <2>1, <2>2, <2>3 DEF BufferInv
  <1>10. QED
    BY <1>8, <1>9 DEF Add

LEMMA FlushKeepsInv == ASSUME BufferInv, FlushBuffer PROVE BufferInv'
  <1>1. ~flushing /\ Take(buffer) /\ UNCHANGED <<accepted, totals, applied, shutdown>>
    BY DEF FlushBuffer
  <1>2. Waiting(accepted', buffer)
    BY <1>1, BufferIsWaiting
  <1>3. QED
    BY <1>1, <1>2, TakeKeepsInv DEF BufferInv, BufferTypeOK

LEMMA StopKeepsInv == ASSUME BufferInv, Stop PROVE BufferInv'
  <1>1. CASE ~flushing /\ Take(buffer) /\ shutdown' = "draining"
    <2>1. Waiting(accepted', buffer)
      BY <1>1, BufferIsWaiting DEF Stop
    <2>2. QED
      BY <1>1, <2>1, TakeKeepsInv DEF BufferInv, BufferTypeOK, Stop
  <1>2. CASE UNCHANGED <<buffer, progress, counts>> /\ shutdown' = "exited"
    BY <1>2 DEF Stop, BufferInv, BufferTypeOK, Writes, EveryWriteIsCounted, progress
  <1>3. QED
    BY <1>1, <1>2 DEF Stop

LEMMA SleepEndsKeepsInv == ASSUME BufferInv, SleepEnds PROVE BufferInv'
  BY DEF SleepEnds, BufferInv, BufferTypeOK, Writes, EveryWriteIsCounted

\* The current write is settled, after the database has executed it or not.
LEMMA AdvanceKeepsInv ==
    ASSUME BufferTypeOK, EveryWriteIsCounted, flushing,
           applied' \in [Databases -> Seq(Writes)],
           Ordered(accepted, buffer, batch, current, applied'),
           NEW settled \in Count,
           Settled(settled) = Settled(counts) + 1,
           Advance(settled), UNCHANGED <<accepted, buffer>>
    PROVE  BufferInv'
  <1>1. /\ accepted \in Seq(Databases)
        /\ buffer \in SUBSET (1..Len(accepted))
        /\ batch \in SUBSET (1..Len(accepted))
        /\ current \in 1..Len(accepted)
        /\ counts \in Count /\ totals \in Count
    BY DEF BufferTypeOK, Writes
  <1>2. /\ Cardinality(batch \cup ({current} \ {0})) = Cardinality(batch) + 1
        /\ Cardinality(batch) \in Nat /\ Cardinality(buffer) \in Nat
    <2>1. Len(accepted) \in Nat
      BY <1>1
    <2>2. current \notin batch
      BY DEF Ordered
    <2>3. QED
      BY <1>1, <2>1, <2>2, FlightGrows, WritesFinite DEF Flight
  <1>9. Settled(counts) \in Nat /\ Settled(totals) \in Nat /\ Settled(settled) \in Nat
    BY <1>1, SettledIsNat
  <1>10. Len(accepted) = Cardinality(buffer) + Cardinality(batch) + 1
                         + Settled(counts) + Settled(totals)
    BY <1>2, <1>9 DEF EveryWriteIsCounted
  <1>11. Len(accepted) = Cardinality(buffer) + Cardinality(batch)
                         + Settled(settled) + Settled(totals)
    BY <1>2, <1>9, <1>10
  <1>3. CASE batch # {}
    <2>1. PICK w \in batch :
             /\ Follows(w, accepted[current])
             /\ batch' = batch \ {w}
             /\ current' = w /\ retryCount' = 0 /\ sleeping' = FALSE
      BY <1>3 DEF Advance, Execute
    <2>2. counts' = settled /\ UNCHANGED <<flushing, totals, shutdown>>
      BY <1>3 DEF Advance
    <2>3. w \in 1..Len(accepted) /\ w # 0
      BY <1>1
    <2>4. BufferTypeOK'
      <3>1. retryCount' \in 0..RetryAttempts
        BY <2>1, ConfigAssumption
      <3>2. batch' \subseteq Writes' /\ current' \in Writes' /\ buffer' \subseteq Writes'
        BY <1>1, <2>1, <2>3 DEF Writes
      <3>3. applied' \in [Databases -> Seq(Writes')] /\ accepted' \in Seq(Databases)
        BY <1>1 DEF Writes
      <3>4. QED
        BY <1>1, <2>1, <2>2, <2>3, <3>1, <3>2, <3>3 DEF BufferTypeOK
    <2>5. Ordered(accepted, buffer, batch \ {w}, w, applied')
      BY <1>1, <2>1, AdvanceKeepsOrder DEF Follows
    <2>6. Cardinality(batch' \cup ({current'} \ {0})) = Cardinality(batch)
      <3>1. batch' \cup ({current'} \ {0}) = batch
        BY <2>1, <2>3
      <3>2. QED
        BY <3>1
    <2>7. EveryWriteIsCounted'
      BY <1>2, <1>9, <1>11, <2>2, <2>6 DEF EveryWriteIsCounted
    <2>8. QED
      BY <2>1, <2>4, <2>5, <2>7 DEF BufferInv
  <1>4. CASE batch = {}
    <2>1. /\ flushing' = FALSE /\ current' = 0 /\ retryCount' = 0 /\ sleeping' = FALSE
          /\ counts' = Zero /\ batch' = {}
          /\ totals' = [flushed |-> totals.flushed + settled.flushed,
                        failed |-> totals.failed + settled.failed]
          /\ shutdown' \in {shutdown, "exited"}
      BY <1>4 DEF Advance, Execute
    <2>2. BufferTypeOK'
      <3>1. retryCount' \in 0..RetryAttempts
        BY <2>1, ConfigAssumption
      <3>2. counts' \in Count /\ totals' \in Count
        <4>1. Zero \in Count
          BY DEF Zero, Count
        <4>2. QED
          BY <1>1, <2>1, <4>1 DEF Count
      <3>3. applied' \in [Databases -> Seq(Writes')] /\ accepted' \in Seq(Databases)
            /\ buffer' \subseteq Writes'
        BY <1>1 DEF Writes
      <3>4. QED
        BY <1>1, <2>1, <3>1, <3>2, <3>3 DEF BufferTypeOK
    <2>3. Ordered(accepted, buffer, {}, 0, applied')
      BY <1>1, <1>4, EndKeepsOrder
    <2>4. Cardinality(batch) = 0
      BY <1>4, FS_EmptySet
    <2>6. EveryWriteIsCounted'
      <3>1. Settled(counts') = 0 /\ Settled(totals') = Settled(totals) + Settled(settled)
        BY <1>1, <2>1 DEF Zero, Count, Settled
      <3>2. Cardinality(batch' \cup ({current'} \ {0})) = 0
        <4>1. batch' \cup ({current'} \ {0}) = {}
          BY <2>1
        <4>2. QED
          BY <4>1, FS_EmptySet
      <3>3. QED
        BY <1>2, <1>9, <1>11, <2>4, <3>1, <3>2 DEF EveryWriteIsCounted
    <2>7. QED
      BY <2>1, <2>2, <2>3, <2>6 DEF BufferInv
  <1>5. QED
    BY <1>3, <1>4

\* What the call in progress may do to the database keeps the order.
LEMMA CallKeepsOrder ==
    ASSUME BufferInv, flushing, Applies \/ UNCHANGED applied
    PROVE  /\ applied' \in [Databases -> Seq(Writes)]
           /\ Ordered(accepted, buffer, batch, current, applied')
  <1>1. /\ accepted \in Seq(Databases)
        /\ buffer \in SUBSET (1..Len(accepted))
        /\ batch \in SUBSET (1..Len(accepted))
        /\ current \in 1..Len(accepted)
        /\ applied \in [Databases -> Seq(1..Len(accepted))]
        /\ Ordered(accepted, buffer, batch, current, applied)
    BY DEF BufferInv, BufferTypeOK, Writes
  <1>2. CASE Applies
    BY <1>1, <1>2, ApplyKeepsOrder DEF Applies, Writes
  <1>3. CASE UNCHANGED applied
    BY <1>1, <1>3 DEF Writes
  <1>4. QED
    BY <1>2, <1>3

LEMMA SucceedsKeepsInv == ASSUME BufferInv, CallSucceeds PROVE BufferInv'
  <1> DEFINE settled == [counts EXCEPT !.flushed = @ + 1]
  <1>1. /\ flushing
        /\ Applies
        /\ Advance(settled)
        /\ UNCHANGED <<accepted, buffer>>
    BY DEF CallSucceeds, Calling
  <1>2. counts \in Count
    BY DEF BufferInv, BufferTypeOK
  <1>3. settled \in Count /\ Settled(settled) = Settled(counts) + 1
    BY <1>2 DEF Count, Settled
  <1>4. /\ applied' \in [Databases -> Seq(Writes)]
        /\ Ordered(accepted, buffer, batch, current, applied')
    BY <1>1, CallKeepsOrder
  <1>5. QED
    BY <1>1, <1>3, <1>4, AdvanceKeepsInv DEF BufferInv

LEMMA FailsKeepsInv == ASSUME BufferInv, CallFails PROVE BufferInv'
  <1> DEFINE settled == [counts EXCEPT !.failed = @ + 1]
  <1>1. flushing /\ (Applies \/ UNCHANGED applied) /\ UNCHANGED <<accepted, buffer>>
    BY DEF CallFails, Calling
  <1>2. /\ applied' \in [Databases -> Seq(Writes)]
        /\ Ordered(accepted, buffer, batch, current, applied')
    BY <1>1, CallKeepsOrder
  <1>3. CASE Advance(settled)
    <2>1. counts \in Count
      BY DEF BufferInv, BufferTypeOK
    <2>2. settled \in Count /\ Settled(settled) = Settled(counts) + 1
      BY <2>1 DEF Count, Settled
    <2>3. QED
      BY <1>1, <1>2, <1>3, <2>2, AdvanceKeepsInv DEF BufferInv
  <1>4. CASE /\ retryCount + 1 <= RetryAttempts
             /\ retryCount' = retryCount + 1
             /\ sleeping' = TRUE
             /\ UNCHANGED <<flushing, batch, current, counts, totals, shutdown>>
    <2>1. BufferTypeOK'
      BY <1>1, <1>2, <1>4, ConfigAssumption DEF BufferInv, BufferTypeOK, Writes
    <2>2. QED
      BY <1>1, <1>2, <1>4, <2>1 DEF BufferInv, EveryWriteIsCounted
  <1>5. retryCount + 1 > RetryAttempts \/ retryCount + 1 <= RetryAttempts
    BY ConfigAssumption DEF BufferInv, BufferTypeOK
  <1>6. QED
    BY <1>3, <1>4, <1>5 DEF CallFails

LEMMA NextInv == BufferInv /\ [BufferNext]_buffervars => BufferInv'
  <1> SUFFICES ASSUME BufferInv, [BufferNext]_buffervars PROVE BufferInv'
    OBVIOUS
  <1>1. CASE UNCHANGED buffervars
    BY <1>1 DEF BufferInv, BufferTypeOK, Writes, EveryWriteIsCounted, buffervars, progress
  <1>2. ASSUME NEW connector \in Databases, Add(connector) PROVE BufferInv'
    BY <1>2, AddKeepsInv
  <1>3. CASE FlushBuffer
    BY <1>3, FlushKeepsInv
  <1>4. CASE CallSucceeds
    BY <1>4, SucceedsKeepsInv
  <1>5. CASE CallFails
    BY <1>5, FailsKeepsInv
  <1>6. CASE SleepEnds
    BY <1>6, SleepEndsKeepsInv
  <1>7. CASE Stop
    BY <1>7, StopKeepsInv
  <1>8. QED
    BY <1>1, <1>2, <1>3, <1>4, <1>5, <1>6, <1>7 DEF BufferNext

THEOREM InvInductive == BufferSpec => []BufferInv
  BY BufferInitInv, NextInv, PTL DEF BufferSpec

\* A database never executes a write after a later one (flush and
\* executeWithRetry), for any number of databases, writes and retries.
THEOREM OrderIsKept == BufferSpec => []WritesKeepTheirOrder
  <1>1. BufferInv => WritesKeepTheirOrder
    BY DEF BufferInv, Ordered, WritesKeepTheirOrder
  <1>2. QED
    BY <1>1, InvInductive, PTL

\* No write is lost from getStats's counts or counted twice, for any size of the
\* buffer, while requests, flushes, retries and the shutdown interleave.
THEOREM WritesAreCounted == BufferSpec => []EveryWriteIsCounted
  BY InvInductive, PTL DEF BufferInv
=============================================================================
