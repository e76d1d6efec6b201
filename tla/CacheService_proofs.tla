------------------------ MODULE CacheService_proofs ------------------------
(***************************************************************************)
(* Theorems about the cache service, for all keys, values, capacities,     *)
(* policies, filters and times to live: its known keys, its filter and its *)
(* timers stay those of the engine's entries, an export is complete, and   *)
(* it implements ExpiringStore.  Then, from the same invariant, theorems   *)
(* about what is built on the service: snapshots and their restoration     *)
(* through crashes, the leases of the locks, and the connections: the      *)
(* mirrors of the WebSocket clients, and the pipelines and the databases   *)
(* of the Redis clients.                                                   *)
(***************************************************************************)
EXTENDS LockService, RedisAdapter, CacheOps_proofs

\* The engine's part of the invariant.
EngineOK(c) == CacheTypeOK(c) /\ WellFormed(c) /\ Len(c.order) <= MaxEntries

\* The known keys and the filter.  A wide value is taken for a missing one and
\* its key forgotten, so the inclusion is of caches without them.
KeysOK(c, known, bits) ==
    /\ known \subseteq Keys
    /\ bits \subseteq Bits
    /\ Wide = {} => Cached(c) \subseteq known
    /\ BloomFilter => \A k \in Cached(c) : Hash[k] \subseteq bits

TTLOK(kept, expiry, armed) ==
    /\ kept \in [Keys -> Timer \cup {Null}]
    /\ expiry \in [Keys -> Nat \cup {Null}]
    /\ armed \subseteq Timer
    /\ armed = {kept[k] : k \in Keys} \ {Null}
    /\ \A k \in Keys :
          kept[k] = IF expiry[k] = Null THEN Null ELSE [key |-> k, due |-> expiry[k]]

\* The loop of an export: what it has visited is collected, as it is cached.
ScanOK(c, known, sc) ==
    /\ sc.left \subseteq known /\ sc.stale \subseteq known
    /\ Wide = {} =>
          /\ sc.stale \cap Cached(c) = {}
          /\ sc # NoScan =>
                sc.entries = [k \in Cached(c) \ sc.left |-> c.entries[k].value]

IInv ==
    /\ EngineOK(cache)
    /\ KeysOK(cache, keySet, bloom)
    /\ TTLOK(ttlTimers, ttlExpiry, timers)
    /\ ScanOK(cache, keySet, scan)
    /\ now \in Nat

-----------------------------------------------------------------------------
(* What the calls of the engine do to its entries.                         *)

LEMMA PutEngine ==
    ASSUME NEW c, EngineOK(c), NEW k \in Keys, NEW v \in Values
    PROVE  EngineOK(Put(c, k, v)) /\ Cached(Put(c, k, v)) \subseteq Cached(c) \cup {k}
  <1>1. CASE k \in Cached(c)
    <2>1. /\ CacheTypeOK(Overwrite(c, k, v)) /\ WellFormed(Overwrite(c, k, v))
          /\ Cached(Overwrite(c, k, v)) = Cached(c)
          /\ Len(Overwrite(c, k, v).order) = Len(c.order)
      BY <1>1, OverwriteKeeps DEF EngineOK
    <2>2. QED
      BY <1>1, <2>1 DEF EngineOK, Put
  <1>2. CASE k \notin Cached(c)
    <2>1. /\ CacheTypeOK(Insert(c, k, v)) /\ WellFormed(Insert(c, k, v))
          /\ Len(Insert(c, k, v).order) <= MaxEntries
          /\ \A x \in Cached(Insert(c, k, v)) \ {k} : x \in Cached(c)
      BY <1>2, InsertAdds DEF EngineOK
    <2>2. QED
      BY <1>2, <2>1 DEF EngineOK, Put
  <1>3. QED
    BY <1>1, <1>2

LEMMA OverwriteEngine ==
    ASSUME NEW c, EngineOK(c), NEW k \in Cached(c), NEW v \in Values
    PROVE  EngineOK(Overwrite(c, k, v)) /\ Cached(Overwrite(c, k, v)) = Cached(c)
  BY OverwriteKeeps DEF EngineOK

LEMMA DeleteEngine ==
    ASSUME NEW c, EngineOK(c), NEW k
    PROVE  EngineOK(Delete(c, k)) /\ Cached(Delete(c, k)) = Cached(c) \ {k}
  <1>1. CASE k \in Cached(c)
    <2>1. /\ CacheTypeOK(Unlink(c, k)) /\ WellFormed(Unlink(c, k))
          /\ Cached(Unlink(c, k)) = Cached(c) \ {k}
          /\ Len(Unlink(c, k).order) = Len(c.order) - 1
      BY <1>1, UnlinkRemoves DEF EngineOK
    <2>2. Len(c.order) \in Nat /\ MaxEntries \in Nat
      BY MaxEntriesAssumption DEF EngineOK, CacheTypeOK
    <2>3. QED
      BY <1>1, <2>1, <2>2 DEF EngineOK, Delete
  <1>2. CASE k \notin Cached(c)
    BY <1>2 DEF Delete
  <1>3. QED
    BY <1>1, <1>2

LEMMA LookupEngine ==
    ASSUME NEW c, EngineOK(c), NEW k
    PROVE  /\ EngineOK(Lookup(c, k)) /\ Cached(Lookup(c, k)) = Cached(c)
           /\ \A x \in Cached(c) : Lookup(c, k).entries[x].value = c.entries[x].value
  <1>1. CASE k \in Cached(c)
    <2>1. /\ CacheTypeOK(Read(c, k)) /\ WellFormed(Read(c, k))
          /\ Cached(Read(c, k)) = Cached(c)
          /\ Len(Read(c, k).order) = Len(c.order)
          /\ \A x \in Cached(c) : Read(c, k).entries[x].value = c.entries[x].value
      BY <1>1, ReadKeeps DEF EngineOK
    <2>2. QED
      BY <1>1, <2>1 DEF EngineOK, Lookup
  <1>2. CASE k \notin Cached(c)
    BY <1>2 DEF Lookup
  <1>3. QED
    BY <1>1, <1>2

LEMMA EncodeType == ASSUME NEW v \in Payloads PROVE Encode(v) \in Values
  BY PayloadsAssumption DEF Encode

-----------------------------------------------------------------------------
(* What the methods do to the timers.                                      *)

\* A timer armed for a key takes the place of the key's old one.
LEMMA ArmKeeps ==
    ASSUME TTLOK(ttlTimers, ttlExpiry, timers), now \in Nat,
           NEW k \in Keys, NEW delay \in Nat, Arm(k, delay)
    PROVE  TTLOK(ttlTimers', ttlExpiry', timers')
  <1> DEFINE timer == [key |-> k, due |-> now + delay]
  <1>1. timer \in Timer /\ timer # Null /\ now + delay \in Nat /\ now + delay # Null
    BY NullAssumption DEF Timer
  <1>2. /\ ttlExpiry' = [ttlExpiry EXCEPT ![k] = now + delay]
        /\ ttlTimers' = [ttlTimers EXCEPT ![k] = timer]
        /\ timers' = (timers \ {ttlTimers[k]}) \cup {timer}
    BY DEF Arm, Stopped
  <1>3. /\ ttlExpiry' \in [Keys -> Nat \cup {Null}] /\ ttlExpiry'[k] = now + delay
        /\ ttlTimers' \in [Keys -> Timer \cup {Null}] /\ ttlTimers'[k] = timer
        /\ \A x \in Keys \ {k} : ttlExpiry'[x] = ttlExpiry[x] /\ ttlTimers'[x] = ttlTimers[x]
    BY <1>1, <1>2 DEF TTLOK
  <1>4. \A x \in Keys \ {k} : ttlTimers[x] # Null => ttlTimers[x] # ttlTimers[k]
    BY DEF TTLOK
  <1>5. timers' = {ttlTimers'[x] : x \in Keys} \ {Null}
    BY <1>1, <1>2, <1>3, <1>4 DEF TTLOK
  <1> HIDE DEF timer
  <1>6. timers' \subseteq Timer
    BY <1>1, <1>2 DEF TTLOK
  <1>7. \A x \in Keys : ttlTimers'[x] = IF ttlExpiry'[x] = Null THEN Null
                                       ELSE [key |-> x, due |-> ttlExpiry'[x]]
    BY <1>1, <1>3 DEF TTLOK, timer
  <1>8. QED
    BY <1>3, <1>5, <1>6, <1>7 DEF TTLOK

\* The timer of a key goes, by itself or as it fires.
LEMMA ForgetKeeps ==
    ASSUME TTLOK(ttlTimers, ttlExpiry, timers), NEW k \in Keys,
           ttlExpiry' = [ttlExpiry EXCEPT ![k] = Null],
           ttlTimers' = [ttlTimers EXCEPT ![k] = Null],
           timers' = timers \ {ttlTimers[k]}
    PROVE  TTLOK(ttlTimers', ttlExpiry', timers')
  <1>1. /\ ttlExpiry' \in [Keys -> Nat \cup {Null}] /\ ttlExpiry'[k] = Null
        /\ ttlTimers' \in [Keys -> Timer \cup {Null}] /\ ttlTimers'[k] = Null
        /\ \A x \in Keys \ {k} : ttlExpiry'[x] = ttlExpiry[x] /\ ttlTimers'[x] = ttlTimers[x]
    BY DEF TTLOK
  <1>2. \A x \in Keys \ {k} : ttlTimers[x] # Null => ttlTimers[x] # ttlTimers[k]
    BY DEF TTLOK
  <1>3. timers' = {ttlTimers'[x] : x \in Keys} \ {Null}
    BY <1>1, <1>2 DEF TTLOK
  <1>4. QED
    BY <1>1, <1>3 DEF TTLOK

-----------------------------------------------------------------------------
(* What the methods do to the known keys and to the filter.                *)

\* set and setRaw, over the cache or what a read has made of it.
LEMMA StoreKeeps ==
    ASSUME KeysOK(cache, keySet, bloom),
           NEW c, EngineOK(c), Cached(c) = Cached(cache),
           NEW k \in Keys, NEW stored \in Values, Store(c, k, stored)
    PROVE  EngineOK(cache') /\ KeysOK(cache', keySet', bloom')
  <1>1. cache' = Put(c, k, stored) /\ keySet' = keySet \cup {k} /\ bloom' = Filtered(k)
    BY DEF Store
  <1>2. EngineOK(cache') /\ Cached(cache') \subseteq Cached(cache) \cup {k}
    BY <1>1, PutEngine
  <1>3. bloom' \subseteq Bits
    BY <1>1 DEF Filtered, KeysOK, Bits
  <1>4. BloomFilter => bloom' = bloom \cup Hash[k]
    BY <1>1 DEF Filtered
  <1>5. BloomFilter => \A x \in Cached(cache') : Hash[x] \subseteq bloom'
    BY <1>2, <1>4 DEF KeysOK
  <1>6. QED
    BY <1>1, <1>2, <1>3, <1>5 DEF KeysOK

\* A key leaves the cache, and is forgotten.
LEMMA RemoveKeeps ==
    ASSUME KeysOK(cache, keySet, bloom),
           NEW c, EngineOK(c), Cached(c) = Cached(cache), NEW k,
           cache' = Delete(c, k), UNCHANGED bloom,
           keySet' = keySet \ {k} \/ (k \notin Cached(cache) /\ keySet' = keySet)
    PROVE  EngineOK(cache') /\ KeysOK(cache', keySet', bloom')
  <1>1. EngineOK(cache') /\ Cached(cache') = Cached(cache) \ {k}
    BY DeleteEngine
  <1>2. QED
    BY <1>1 DEF KeysOK

\* The keys that are cached stay the same.
LEMMA SameKeys ==
    ASSUME KeysOK(cache, keySet, bloom), Cached(cache') = Cached(cache),
           UNCHANGED <<keySet, bloom>>
    PROVE  KeysOK(cache', keySet', bloom')
  BY DEF KeysOK

\* Without an export in progress, the methods leave nothing to it.
LEMMA NoScanOK ==
    ASSUME NEW c, NEW known
    PROVE  ScanOK(c, known, NoScan)
  BY DEF ScanOK, NoScan

\* set, and delete, whatever the time to live.
LEMMA SetFromKeeps ==
    ASSUME IInv, NEW c, EngineOK(c), Cached(c) = Cached(cache),
           NEW k \in Keys, NEW v \in Payloads, NEW time, Effective(time) \in Int,
           SetFrom(c, k, v, time), ~Scanning, UNCHANGED <<scan, now>>
    PROVE  IInv'
  <1>1. EngineOK(cache') /\ KeysOK(cache', keySet', bloom')
    BY StoreKeeps, EncodeType DEF IInv, SetFrom
  <1>2. (Effective(time) \in Nat /\ Arm(k, Effective(time))) \/ UNCHANGED ttl
    BY DEF SetFrom
  <1>3. TTLOK(ttlTimers', ttlExpiry', timers')
    BY <1>2, ArmKeeps DEF IInv, ttl
  <1>4. ScanOK(cache', keySet', scan')
    BY NoScanOK DEF Scanning
  <1>5. QED
    BY <1>1, <1>3, <1>4 DEF IInv

LEMMA DeleteFromKeeps ==
    ASSUME IInv, NEW c, EngineOK(c), Cached(c) = Cached(cache),
           NEW k \in Keys, DeleteFrom(c, k), ~Scanning, UNCHANGED <<scan, now>>
    PROVE  IInv'
  <1>1. EngineOK(cache') /\ KeysOK(cache', keySet', bloom')
    BY RemoveKeeps DEF IInv, DeleteFrom
  <1>2. TTLOK(ttlTimers', ttlExpiry', timers')
    BY ForgetKeeps DEF IInv, DeleteFrom, ForgetTTL, Stopped
  <1>3. ScanOK(cache', keySet', scan')
    BY NoScanOK DEF Scanning
  <1>4. QED
    BY <1>1, <1>2, <1>3 DEF IInv

-----------------------------------------------------------------------------
(* The invariant.                                                          *)

LEMMA InitInv == Init => IInv
  <1> SUFFICES ASSUME Init PROVE IInv
    OBVIOUS
  <1>1. EngineOK(cache) /\ Cached(cache) = {}
    <2>1. Cached(EmptyCache) = {}
      BY DEF Cached, EmptyCache
    <2>2. QED
      BY <2>1, EmptyCacheOK, MaxEntriesAssumption DEF Init, EngineOK
  <1>2. KeysOK(cache, keySet, bloom)
    BY <1>1 DEF Init, KeysOK
  <1>3. TTLOK(ttlTimers, ttlExpiry, timers)
    BY DEF Init, TTLOK
  <1>4. ScanOK(cache, keySet, scan) /\ now \in Nat
    BY NoScanOK DEF Init
  <1>5. QED
    BY <1>1, <1>2, <1>3, <1>4 DEF IInv

LEMMA NextInv == IInv /\ [Next]_vars => IInv'
  <1> SUFFICES ASSUME IInv, [Next]_vars PROVE IInv'
    OBVIOUS
  <1> DEFINE TTLKept == TTLOK(ttlTimers', ttlExpiry', timers')
             DataKept == EngineOK(cache') /\ KeysOK(cache', keySet', bloom')
  <1>1. /\ EngineOK(cache) /\ KeysOK(cache, keySet, bloom)
        /\ TTLOK(ttlTimers, ttlExpiry, timers)
        /\ ScanOK(cache, keySet, scan)
        /\ now \in Nat
    BY DEF IInv
  <1>2. UNCHANGED ttl => TTLKept
    BY <1>1 DEF ttl
  <1>3. UNCHANGED data => DataKept
    BY <1>1 DEF data
  <1>4. ASSUME ~Scanning, UNCHANGED <<scan, now>>, TTLKept, DataKept
        PROVE  IInv'
    <2>1. ScanOK(cache', keySet', scan')
      BY <1>4, NoScanOK DEF Scanning
    <2>2. QED
      BY <1>1, <1>4, <2>1 DEF IInv
  <1>5. ASSUME NEW k \in Keys, Get(k) \/ DeleteKey(k)
        PROVE  IInv'
    <2>1. CASE Get(k)
      <3>1. cache' = Lookup(cache, k) /\ UNCHANGED <<keySet, bloom, ttl>>
        BY <2>1 DEF Get, Lookup
      <3>2. DataKept
        BY <1>1, <3>1, LookupEngine, SameKeys
      <3>3. QED
        BY <1>2, <1>4, <2>1, <3>1, <3>2 DEF Get
    <2>2. CASE DeleteKey(k)
      BY <1>1, <2>2, DeleteFromKeeps DEF DeleteKey
    <2>3. QED
      BY <1>5, <2>1, <2>2
  <1>6. ASSUME NEW k \in Keys, NEW v \in Payloads, NEW time \in TTLs \cup {Undefined},
               Set(k, v, time)
        PROVE  IInv'
    <2>1. Effective(time) \in Nat
      BY TTLAssumption DEF Effective
    <2>2. QED
      BY <1>1, <1>6, <2>1, SetFromKeeps DEF Set
  <1>7. ASSUME NEW k \in Keys, NEW v \in Values, ~Scanning, k \in Cached(cache),
               cache' = Overwrite(cache, k, v), UNCHANGED <<keySet, bloom, ttl, scan, now>>
        PROVE  IInv'
    <2>1. DataKept
      BY <1>1, <1>7, OverwriteEngine, SameKeys
    <2>2. QED
      BY <1>2, <1>4, <1>7, <2>1
  <1>8. ASSUME NEW k \in Keys, NEW delta \in Deltas, Incr(k, delta)
        PROVE  IInv'
    <2>1. cache.entries[k].value + delta \in Values
      BY <1>8, NumbersAssumption DEF Incr, IsNumber
    <2>2. QED
      BY <1>7, <1>8, <2>1 DEF Incr
  <1>9. ASSUME NEW k \in Keys, NEW v \in Payloads, NEW n \in 1..MaxAccess, CasPut(k, v, n)
        PROVE  IInv'
    BY <1>7, <1>9, PayloadsAssumption DEF CasPut
  <1>10. ASSUME NEW k \in Keys, NEW time \in TTLs, Touch(k, time)
         PROVE  IInv'
    <2>1. DataKept
      BY <1>3, <1>10 DEF Touch
    <2>2. TTLKept
      <3>1. Arm(k, time) \/ ForgetTTL(k)
        BY <1>10 DEF Touch
      <3>2. time \in Nat
        BY TTLAssumption
      <3>3. QED
        BY <1>1, <3>1, <3>2, ArmKeeps, ForgetKeeps DEF ForgetTTL, Stopped
    <2>3. QED
      BY <1>4, <1>10, <2>1, <2>2 DEF Touch
  <1>11. CASE Clear
    <2>1. Cached(EmptyCache) = {} /\ EngineOK(EmptyCache)
      BY EmptyCacheOK, MaxEntriesAssumption DEF Cached, EmptyCache, EngineOK
    <2>2. DataKept
      BY <1>11, <2>1 DEF Clear, KeysOK
    <2>3. TTLKept
      <3>1. /\ ttlTimers' = [k \in Keys |-> Null] /\ ttlExpiry' = [k \in Keys |-> Null]
            /\ timers' = {}
        BY <1>1, <1>11 DEF Clear, TTLOK
      <3>2. QED
        BY <3>1 DEF TTLOK
    <2>4. QED
      BY <1>4, <1>11, <2>2, <2>3 DEF Clear
  <1>12. CASE ListKeys
    <2>1. DataKept
      BY <1>1, <1>12 DEF ListKeys, KeysOK
    <2>2. QED
      BY <1>2, <1>4, <1>12, <2>1 DEF ListKeys
  <1>13. ASSUME NEW k \in Keys, NEW stored \in Values, SetRaw(k, stored)
         PROVE  IInv'
    <2>1. DataKept
      BY <1>1, <1>13, StoreKeeps DEF SetRaw
    <2>2. QED
      BY <1>2, <1>4, <1>13, <2>1 DEF SetRaw
  <1>14. ASSUME NEW timer \in timers, TimerFires(timer)
         PROVE  IInv'
    <2>1. timer.key \in Keys /\ timer = ttlTimers[timer.key]
      BY <1>1 DEF TTLOK
    <2>2. DataKept
      BY <1>1, <1>14, RemoveKeeps DEF TimerFires
    <2>3. TTLKept
      BY <1>1, <1>14, <2>1, ForgetKeeps DEF TimerFires
    <2>4. QED
      BY <1>4, <1>14, <2>2, <2>3 DEF TimerFires
  <1>15. CASE ExportEntries
    <2>1. DataKept /\ TTLKept /\ scan = NoScan /\ UNCHANGED <<cache, keySet, now>>
      BY <1>2, <1>3, <1>15 DEF ExportEntries, Scanning, data
    <2>2. scan' = [left |-> keySet, stale |-> {}, entries |-> << >>]
      BY <1>15, <2>1 DEF ExportEntries, NoScan
    <2>3. Wide = {} => << >> = [k \in Cached(cache) \ scan'.left |-> cache.entries[k].value]
      <3>1. Wide = {} => Cached(cache) \ scan'.left = {}
        BY <1>1, <2>2 DEF KeysOK
      <3>2. << >> = [k \in {} |-> cache.entries[k].value]
        OBVIOUS
      <3>3. QED
        BY <3>1, <3>2
    <2>4. ScanOK(cache', keySet', scan')
      BY <2>1, <2>2, <2>3 DEF ScanOK
    <2>5. QED
      BY <1>1, <2>1, <2>4 DEF IInv
  <1>16. ASSUME NEW k \in scan.left, ExportNext(k)
         PROVE  IInv'
    <2>1. cache' = Lookup(cache, k) /\ UNCHANGED <<keySet, bloom, ttl, now>>
      BY <1>16 DEF ExportNext
    <2>2. /\ EngineOK(cache') /\ Cached(cache') = Cached(cache)
          /\ \A x \in Cached(cache) : cache'.entries[x].value = cache.entries[x].value
      BY <1>1, <2>1, LookupEngine
    <2>3. DataKept /\ TTLKept
      BY <1>1, <1>2, <2>1, <2>2, SameKeys
    <2>4. /\ scan'.left = scan.left \ {k}
          /\ scan'.stale = IF Readable(k) THEN scan.stale ELSE scan.stale \cup {k}
          /\ scan'.entries = IF Readable(k)
                             THEN [x \in DOMAIN scan.entries \cup {k} |->
                                      IF x = k THEN cache.entries[k].value
                                      ELSE scan.entries[x]]
                             ELSE scan.entries
      BY <1>16 DEF ExportNext
    <2>5. scan # NoScan
      BY <1>16 DEF NoScan
    <2>6. ASSUME Wide = {}
          PROVE  /\ scan'.stale \cap Cached(cache') = {}
                 /\ scan'.entries = [x \in Cached(cache') \ scan'.left |->
                                        cache'.entries[x].value]
      <3>1. Readable(k) <=> k \in Cached(cache)
        BY <2>6 DEF Readable
      <3>2. /\ scan.stale \cap Cached(cache) = {}
            /\ scan.entries = [x \in Cached(cache) \ scan.left |-> cache.entries[x].value]
        BY <1>1, <2>5, <2>6 DEF ScanOK
      <3>3. CASE k \in Cached(cache)
        <4>1. (Cached(cache) \ scan.left) \cup {k} = Cached(cache') \ scan'.left
          BY <1>16, <2>2, <2>4, <3>3
        <4>2. scan'.entries = [x \in (Cached(cache) \ scan.left) \cup {k} |->
                                  cache.entries[x].value]
          BY <2>4, <3>1, <3>2, <3>3
        <4>3. \A x \in (Cached(cache) \ scan.left) \cup {k} :
                 cache.entries[x].value = cache'.entries[x].value
          BY <2>2, <3>3
        <4>4. QED
          BY <2>4, <2>2, <3>1, <3>2, <3>3, <4>1, <4>2, <4>3
      <3>4. CASE k \notin Cached(cache)
        <4>1. Cached(cache) \ scan.left = Cached(cache') \ scan'.left
          BY <2>2, <2>4, <3>4
        <4>2. QED
          BY <2>2, <2>4, <3>1, <3>2, <3>4, <4>1
      <3>5. QED
        BY <3>3, <3>4
    <2>7. scan'.left \subseteq keySet' /\ scan'.stale \subseteq keySet'
      BY <1>1, <1>16, <2>1, <2>4 DEF ScanOK
    <2>8. ScanOK(cache', keySet', scan')
      BY <2>6, <2>7 DEF ScanOK
    <2>9. QED
      BY <1>1, <2>1, <2>3, <2>8 DEF IInv
  <1>17. CASE ExportReturns
    <2>1. /\ keySet' = keySet \ scan.stale /\ scan' = NoScan
          /\ UNCHANGED <<cache, bloom, ttl, now>>
      BY <1>17 DEF ExportReturns
    <2>2. DataKept
      BY <1>1, <2>1 DEF KeysOK, ScanOK
    <2>3. QED
      BY <1>1, <1>2, <2>1, <2>2, NoScanOK DEF IInv
  <1>18. CASE Tick
    <2>1. now' \in Nat /\ DataKept /\ TTLKept /\ UNCHANGED <<cache, keySet, scan>>
      BY <1>1, <1>2, <1>3, <1>18 DEF Tick, data
    <2>2. QED
      BY <1>1, <2>1 DEF IInv
  <1>19. CASE UNCHANGED vars
    BY <1>19, <1>1 DEF vars, IInv
  <1>20. QED
    BY <1>5, <1>6, <1>8, <1>9, <1>10, <1>11, <1>12, <1>13, <1>14, <1>15, <1>16,
       <1>17, <1>18, <1>19 DEF Next

-----------------------------------------------------------------------------
(* The theorems.                                                           *)

LEMMA Inductive == Spec => []IInv
  BY InitInv, NextInv, PTL DEF Spec

\* The state of the service keeps its types.
THEOREM ServiceTypes == Spec => []TypeOK
  <1>1. IInv => TypeOK
    BY DEF IInv, EngineOK, KeysOK, TTLOK, ScanOK, TypeOK
  <1>2. QED
    BY Inductive, <1>1, PTL

\* KnownKeys, of set, delete, keys, clear, setRaw, exportEntries and the timer
\* callbacks: the service knows every key of the engine, although the engine
\* evicts without telling, unless a value is too long for the bridge to read.
THEOREM CachedKeysAreKnown == ASSUME Wide = {} PROVE Spec => []KnownKeys
  <1>1. IInv => KnownKeys
    BY DEF IInv, KeysOK, KnownKeys
  <1>2. QED
    BY Inductive, <1>1, PTL

\* NoFalseNegative, of the filter: a cached key is always found, if it has a
\* bit to be found by.
THEOREM FilterFindsAll ==
    ASSUME \A k \in Keys : Hash[k] # {} PROVE Spec => []NoFalseNegative
  <1>1. IInv => NoFalseNegative
    BY DEF IInv, EngineOK, CacheTypeOK, KeysOK, NoFalseNegative, Check
  <1>2. QED
    BY Inductive, <1>1, PTL

\* TimersMatch, of set, touch, delete, clear and the timer callbacks: the event
\* loop holds one timer for each key that expires, due at its expiry, and no
\* other.
THEOREM OneTimerPerKey == Spec => []TimersMatch
  <1>1. IInv => TimersMatch
    BY DEF IInv, TTLOK, TimersMatch
  <1>2. QED
    BY Inductive, <1>1, PTL

\* ExportIsComplete, of exportEntries: what it returns is the content of the
\* cache, for caches without values that the bridge cannot read.
THEOREM ExportsAreComplete == ASSUME Wide = {} PROVE Spec => []ExportIsComplete
  <1>1. IInv => ExportIsComplete
    BY DEF IInv, ScanOK, ExportIsComplete, Scanning
  <1>2. QED
    BY Inductive, <1>1, PTL

-----------------------------------------------------------------------------
(* The refinement.  What a client finds under a key, for an engine c.      *)

Value(c, k) == IF k \in Cached(c) THEN Decode(c.entries[k].value) ELSE Null

Contents(c) == [k \in Keys |-> Value(c, k)]

\* What is stored decodes to a value.
LEMMA DecodeType == ASSUME NEW s \in Values PROVE Decode(s) \in Values
  BY PayloadsAssumption DEF Decode

LEMMA DecodeEncode == ASSUME NEW v \in Faithful PROVE Decode(Encode(v)) = v
  <1>1. CASE v \in DOMAIN Pack
    <2>1. Encode(v) = Pack[v] /\ Pack[v] \in DOMAIN Unpack /\ Unpack[Pack[v]] = v
      BY <1>1, PayloadsAssumption DEF Encode
    <2>2. QED
      BY <2>1 DEF Decode
  <1>2. CASE v \notin DOMAIN Pack
    BY <1>2 DEF Faithful, Encode, Decode
  <1>3. QED
    BY <1>1, <1>2

\* A client finds the keys that are cached.
LEMMA PresentIsCached ==
    ASSUME NEW c, EngineOK(c)
    PROVE  /\ Cached(c) \subseteq Keys
           /\ {k \in Keys : Contents(c)[k] # Null} = Cached(c)
  <1>1. Cached(c) \subseteq Keys /\ \A k \in Cached(c) : c.entries[k].value \in Values
    BY DEF EngineOK, CacheTypeOK, Entry
  <1>2. \A k \in Cached(c) : Value(c, k) # Null
    BY <1>1, DecodeType, NullAssumption DEF Value
  <1>3. \A k \in Keys \ Cached(c) : Value(c, k) = Null
    BY DEF Value
  <1>4. QED
    BY <1>1, <1>2, <1>3 DEF Contents

\* What an overwrite stores.
LEMMA OverwriteValue ==
    ASSUME NEW c, EngineOK(c), NEW k \in Cached(c), NEW v \in Values
    PROVE  Overwrite(c, k, v).entries[k].value = v
  BY DEF Overwrite, Replace, EngineOK, CacheTypeOK

\* A write of the engine, as a client sees it: the key takes its value, and at
\* most one other is lost, for which the cache has to be full.
LEMMA PutContents ==
    ASSUME NEW c, EngineOK(c), NEW k \in Keys, NEW v \in Values
    PROVE  \E lost \in SUBSET (Cached(c) \ {k}) :
              /\ Cardinality(lost) = IF k \notin Cached(c) /\ Cardinality(Cached(c)) = MaxEntries
                                     THEN 1 ELSE 0
              /\ Contents(Put(c, k, v)) = [x \in Keys |-> IF x = k THEN Decode(v)
                                              ELSE IF x \in lost THEN Null ELSE Contents(c)[x]]
  <1>1. CASE k \in Cached(c)
    <2>1. /\ Put(c, k, v) = Overwrite(c, k, v)
          /\ Cached(Overwrite(c, k, v)) = Cached(c)
          /\ \A x \in Cached(c) : x # k => Overwrite(c, k, v).entries[x] = c.entries[x]
          /\ Overwrite(c, k, v).entries[k].value = v
      BY <1>1, OverwriteKeeps, OverwriteValue DEF EngineOK, Put
    <2>2. \A x \in Keys : Value(Put(c, k, v), x) = IF x = k THEN Decode(v) ELSE Value(c, x)
      BY <1>1, <2>1 DEF Value
    <2>3. Contents(Put(c, k, v)) = [x \in Keys |-> IF x = k THEN Decode(v)
                                       ELSE IF x \in {} THEN Null ELSE Contents(c)[x]]
      BY <2>2 DEF Contents
    <2>4. Cardinality({}) = 0
      BY FS_EmptySet
    <2>5. QED
      BY <1>1, <2>3, <2>4
  <1>2. CASE k \notin Cached(c)
    <2> DEFINE lost == IF Full(c) THEN {Victim(c)} ELSE {}
    <2>1. /\ Cached(Insert(c, k, v)) = (Cached(c) \ lost) \cup {k}
          /\ Insert(c, k, v).entries[k] = NewEntry(v)
          /\ \A x \in Cached(Insert(c, k, v)) \ {k} :
                Insert(c, k, v).entries[x] = c.entries[x]
      BY <1>2, InsertAdds DEF EngineOK
    <2>2. Full(c) => Victim(c) \in Cached(c)
      BY VictimIsCached DEF EngineOK
    <2>3. Full(c) <=> Cardinality(Cached(c)) = MaxEntries
      <3>1. Cardinality(Cached(c)) = Len(c.order) /\ Len(c.order) <= MaxEntries
        BY CachedCount DEF EngineOK
      <3>2. Len(c.order) \in Nat /\ MaxEntries \in Nat
        BY MaxEntriesAssumption DEF EngineOK, CacheTypeOK
      <3>3. QED
        BY <3>1, <3>2 DEF Full
    <2>4. Cardinality(lost) = IF Full(c) THEN 1 ELSE 0
      BY FS_EmptySet, FS_Singleton
    <2>5. lost \in SUBSET (Cached(c) \ {k})
      BY <1>2, <2>2
    <2>6. Put(c, k, v) = Insert(c, k, v) /\ NewEntry(v).value = v
      BY <1>2 DEF Put, NewEntry
    <2> HIDE DEF lost
    <2>7. \A x \in Keys : Value(Put(c, k, v), x) =
             IF x = k THEN Decode(v) ELSE IF x \in lost THEN Null ELSE Value(c, x)
      BY <2>1, <2>6 DEF Value
    <2>8. Contents(Put(c, k, v)) = [x \in Keys |-> IF x = k THEN Decode(v)
                                       ELSE IF x \in lost THEN Null ELSE Contents(c)[x]]
      BY <2>7 DEF Contents
    <2>9. QED
      BY <1>2, <2>3, <2>4, <2>5, <2>8
  <1>3. QED
    BY <1>1, <1>2

\* A removal, and a read, as a client sees them.
LEMMA DeleteContents ==
    ASSUME NEW c, EngineOK(c), NEW k
    PROVE  Contents(Delete(c, k)) = [Contents(c) EXCEPT ![k] = Null]
  <1>1. /\ Cached(Delete(c, k)) = Cached(c) \ {k}
        /\ \A x \in Cached(c) \ {k} : Delete(c, k).entries[x] = c.entries[x]
    <2>1. CASE k \in Cached(c)
      BY <2>1, UnlinkRemoves DEF EngineOK, Delete
    <2>2. CASE k \notin Cached(c)
      BY <2>2 DEF Delete
    <2>3. QED
      BY <2>1, <2>2
  <1>2. \A x \in Keys : Value(Delete(c, k), x) = IF x = k THEN Null ELSE Value(c, x)
    BY <1>1 DEF Value
  <1>3. QED
    BY <1>2 DEF Contents

LEMMA LookupContents ==
    ASSUME NEW c, EngineOK(c), NEW k
    PROVE  Contents(Lookup(c, k)) = Contents(c)
  <1>1. \A x \in Keys : Value(Lookup(c, k), x) = Value(c, x)
    BY LookupEngine DEF Value
  <1>2. QED
    BY <1>1 DEF Contents

\* What the refinement mapping takes for the store.
Answers == [k \in Keys |-> Answer(k)]

\* The filter and the bridge hide no key that is cached.
LEMMA AnswersAreContents ==
    ASSUME Wide = {}, \A k \in Keys : Hash[k] # {}
    PROVE  /\ IInv => /\ \A k \in Keys : Answer(k) = Value(cache, k)
                      /\ Answers = Contents(cache)
           /\ IInv' => Answers' = Contents(cache')
  <1>1. ASSUME IInv, NEW k \in Keys PROVE Answer(k) = Value(cache, k)
    BY <1>1 DEF IInv, KeysOK, Answer, Check, Readable, Value
  <1>2. ASSUME IInv', NEW k \in Keys PROVE Answer(k)' = Value(cache', k)
    BY <1>2 DEF IInv, KeysOK, Answer, Check, Readable, Value
  <1>3. QED
    BY <1>1, <1>2 DEF Answers, Contents

\* The cardinality that ExpiringStore speaks of is the cardinality.
LEMMA SameCardinality == \A S : MapWithDeadlines!Cardinality(S) = Cardinality(S)
  BY DEF MapWithDeadlines!Cardinality, Cardinality

\* What a write of any kind is to a client.
LEMMA WriteRefines ==
    ASSUME IInv, Answers = Contents(cache), Answers' = Contents(cache'), UNCHANGED now,
           NEW k \in Keys, NEW v \in Values, cache' = Put(cache, k, v),
           \/ UNCHANGED ttlExpiry
           \/ \E delay \in Nat \ {0} : ttlExpiry' = [ttlExpiry EXCEPT ![k] = now + delay]
    PROVE  MapWithDeadlines!Next
  <1>1. EngineOK(cache) /\ now \in Nat /\ ttlExpiry \in [Keys -> Nat \cup {Null}]
    BY DEF IInv, TTLOK
  <1>2. Cached(cache) = MapWithDeadlines!Present
    BY <1>1, PresentIsCached DEF MapWithDeadlines!Present, Answers
  <1>3. PICK lost \in SUBSET (Cached(cache) \ {k}) :
           /\ Cardinality(lost) = IF k \notin Cached(cache)
                                     /\ Cardinality(Cached(cache)) = MaxEntries
                                  THEN 1 ELSE 0
           /\ Contents(cache') = [x \in Keys |-> IF x = k THEN Decode(v)
                                     ELSE IF x \in lost THEN Null ELSE Contents(cache)[x]]
    BY <1>1, PutContents
  <1>4. UNCHANGED ttlExpiry \/ MapWithDeadlines!Postpone(k)
    <2>1. ASSUME NEW delay \in Nat \ {0}, ttlExpiry' = [ttlExpiry EXCEPT ![k] = now + delay]
          PROVE  MapWithDeadlines!Postpone(k)
      BY <1>1, <2>1 DEF MapWithDeadlines!Postpone
    <2>2. QED
      BY <2>1
  <1>5. MapWithDeadlines!Write(k, Decode(v))
    <2>1. lost \in SUBSET (MapWithDeadlines!Present \ {k})
      BY <1>2
    <2>2. Cardinality(lost) = IF k \notin MapWithDeadlines!Present
                                 /\ Cardinality(MapWithDeadlines!Present) = MaxEntries
                              THEN 1 ELSE 0
      BY <1>2, <1>3
    <2>3. Answers' = [x \in Keys |-> IF x = k THEN Decode(v)
                                     ELSE IF x \in lost THEN Null ELSE Answers[x]]
      BY <1>3
    <2>4. QED
      BY <2>1, <2>2, <2>3, <1>4, SameCardinality, Zenon DEF MapWithDeadlines!Write, Answers
  <1>6. Decode(v) \in Values
    BY DecodeType
  <1>7. QED
    BY <1>5, <1>6 DEF MapWithDeadlines!Next

\* What a removal is.
LEMMA RemoveRefines ==
    ASSUME IInv, Answers = Contents(cache), Answers' = Contents(cache'), UNCHANGED now,
           NEW k \in Keys, cache' = Delete(cache, k),
           ttlExpiry' = [ttlExpiry EXCEPT ![k] = Null]
    PROVE  MapWithDeadlines!Next
  <1>1. Contents(cache') = [Contents(cache) EXCEPT ![k] = Null]
    BY DeleteContents DEF IInv
  <1>2. MapWithDeadlines!Remove(k)
    BY <1>1 DEF MapWithDeadlines!Remove, Answers
  <1>3. QED
    BY <1>2 DEF MapWithDeadlines!Next

\* Every step is one of the map with deadlines, or invisible.
LEMMA StepRefines ==
    ASSUME Wide = {}, \A k \in Keys : Hash[k] # {}, IInv, IInv', [Next]_vars
    PROVE  [MapWithDeadlines!Next]_(MapWithDeadlines!vars)
  <1> DEFINE Goal == MapWithDeadlines!Next \/ UNCHANGED MapWithDeadlines!vars
  <1>1. /\ EngineOK(cache) /\ now \in Nat /\ ttlExpiry \in [Keys -> Nat \cup {Null}]
        /\ Answers = Contents(cache) /\ Answers' = Contents(cache')
    BY AnswersAreContents DEF IInv, TTLOK
  <1>2. ASSUME Contents(cache') = Contents(cache), UNCHANGED <<ttlExpiry, now>>
        PROVE  Goal
    BY <1>1, <1>2 DEF MapWithDeadlines!vars, Answers
  <1>3. ASSUME NEW k \in Keys, Get(k) \/ DeleteKey(k)
        PROVE  Goal
    <2>1. CASE Get(k)
      <3>1. cache' = Lookup(cache, k) /\ UNCHANGED <<ttlExpiry, now>>
        BY <2>1 DEF Get, Lookup, ttl
      <3>2. QED
        BY <1>1, <1>2, <3>1, LookupContents
    <2>2. CASE DeleteKey(k)
      BY <1>1, <2>2, RemoveRefines DEF DeleteKey, DeleteFrom, ForgetTTL
    <2>3. QED
      BY <1>3, <2>1, <2>2
  <1>4. ASSUME NEW k \in Keys, NEW v \in Payloads, NEW time \in TTLs \cup {Undefined},
               Set(k, v, time)
        PROVE  Goal
    <2>1. Encode(v) \in Values /\ cache' = Put(cache, k, Encode(v)) /\ UNCHANGED now
      BY <1>4, EncodeType DEF Set, SetFrom, Store
    <2>2. Effective(time) \in Nat
      BY TTLAssumption DEF Effective
    <2>3. \/ UNCHANGED ttlExpiry
          \/ \E delay \in Nat \ {0} : ttlExpiry' = [ttlExpiry EXCEPT ![k] = now + delay]
      <3>1. CASE Effective(time) > 0
        BY <1>4, <2>2, <3>1 DEF Set, SetFrom, Arm
      <3>2. CASE ~(Effective(time) > 0)
        BY <1>4, <3>2 DEF Set, SetFrom, ttl
      <3>3. QED
        BY <3>1, <3>2
    <2>4. QED
      BY <1>1, <2>1, <2>3, WriteRefines
  <1>5. ASSUME NEW k \in Cached(cache), NEW v \in Values, cache' = Overwrite(cache, k, v),
               UNCHANGED <<ttlExpiry, now>>
        PROVE  Goal
    <2>1. k \in Keys /\ cache' = Put(cache, k, v)
      BY <1>1, <1>5 DEF Put, EngineOK, CacheTypeOK
    <2>2. QED
      BY <1>1, <1>5, <2>1, WriteRefines
  <1>6. ASSUME NEW k \in Keys, NEW delta \in Deltas, Incr(k, delta)
        PROVE  Goal
    <2>1. cache.entries[k].value + delta \in Values
      BY <1>6, NumbersAssumption DEF Incr, IsNumber
    <2>2. QED
      BY <1>5, <1>6, <2>1 DEF Incr, ttl
  <1>7. ASSUME NEW k \in Keys, NEW v \in Payloads, NEW n \in 1..MaxAccess, CasPut(k, v, n)
        PROVE  Goal
    BY <1>5, <1>7, PayloadsAssumption DEF CasPut, ttl
  <1>8. ASSUME NEW k \in Keys, NEW time \in TTLs, Touch(k, time)
        PROVE  Goal
    <2>1. UNCHANGED Answers /\ UNCHANGED now /\ k \in MapWithDeadlines!Present
      BY <1>1, <1>8, PresentIsCached DEF Touch, data, MapWithDeadlines!Present, Answers
    <2>2. time \in Nat
      BY TTLAssumption
    <2>3. \/ ttlExpiry' = [ttlExpiry EXCEPT ![k] = Null]
          \/ MapWithDeadlines!Postpone(k)
      <3>1. CASE time > 0
        <4>1. ttlExpiry' = [ttlExpiry EXCEPT ![k] = now + time]
          BY <1>8, <3>1 DEF Touch, Arm
        <4>2. QED
          BY <1>1, <2>2, <3>1, <4>1 DEF MapWithDeadlines!Postpone
      <3>2. CASE ~(time > 0)
        BY <1>8, <3>2 DEF Touch, ForgetTTL
      <3>3. QED
        BY <3>1, <3>2
    <2>4. MapWithDeadlines!Touch(k)
      BY <2>1, <2>3 DEF MapWithDeadlines!Touch, Answers
    <2>5. QED
      BY <2>1, <2>4 DEF MapWithDeadlines!Next
  <1>9. CASE Clear
    <2>1. Contents(cache') = [k \in Keys |-> Null]
      BY <1>9 DEF Clear, Contents, Value, EmptyCache, Cached
    <2>2. MapWithDeadlines!Clear /\ UNCHANGED now
      BY <1>1, <1>9, <2>1 DEF Clear, MapWithDeadlines!Clear, Answers
    <2>3. QED
      BY <2>2 DEF MapWithDeadlines!Next
  <1>10. ASSUME NEW k \in Keys, NEW stored \in Values, SetRaw(k, stored)
         PROVE  Goal
    BY <1>1, <1>10, WriteRefines DEF SetRaw, Store, ttl
  <1>11. ASSUME NEW timer \in timers, TimerFires(timer)
         PROVE  Goal
    <2>1. timer.key \in Keys
      BY DEF IInv, TTLOK, Timer
    <2>2. QED
      BY <1>1, <1>11, <2>1, RemoveRefines DEF TimerFires
  <1>12. ASSUME NEW k \in scan.left, ExportNext(k)
         PROVE  Goal
    <2>1. cache' = Lookup(cache, k) /\ UNCHANGED <<ttlExpiry, now>>
      BY <1>12 DEF ExportNext, ttl
    <2>2. QED
      BY <1>1, <1>2, <2>1, LookupContents
  <1>13. CASE ListKeys \/ ExportEntries \/ ExportReturns \/ UNCHANGED vars
    BY <1>2, <1>13 DEF ListKeys, ExportEntries, ExportReturns, vars, data, ttl
  <1>14. CASE Tick
    <2>1. now' = now + 1 /\ UNCHANGED <<ttlExpiry, cache>>
      BY <1>14 DEF Tick, data, ttl
    <2>2. QED
      BY <1>1, <2>1 DEF MapWithDeadlines!Next, Answers
  <1>15. QED
    BY <1>3, <1>4, <1>6, <1>7, <1>8, <1>9, <1>10, <1>11, <1>12, <1>13, <1>14 DEF Next

\* A set is answered with its value, if that is faithful, or not at all.
LEMMA SetsAreAnswered ==
    ASSUME Wide = {}, \A k \in Keys : Hash[k] # {}, IInv, IInv',
           NEW k \in Keys, NEW v \in Faithful, NEW time, Set(k, v, time)
    PROVE  Answer(k)' = v
  <1>1. v \in Payloads /\ Encode(v) \in Values /\ EngineOK(cache)
    BY EncodeType, PayloadsAssumption DEF Faithful, IInv
  <1>2. cache' = Put(cache, k, Encode(v))
    BY DEF Set, SetFrom, Store
  <1>3. Contents(cache')[k] = Decode(Encode(v))
    BY <1>1, <1>2, PutContents
  <1>4. Answers' = Contents(cache')
    BY AnswersAreContents
  <1>5. Answers'[k] = Answer(k)'
    BY DEF Answers
  <1>6. QED
    BY <1>3, <1>4, <1>5, DecodeEncode

\* ImplementsStore, of every method, callback and loop of cache-service.ts: a
\* client cannot tell the engine, its evictions, the filter, the compression
\* and the timers from a map with deadlines, if every key has bits in the
\* filter and no value is too long for the bridge; and a set is answered with
\* its value, but for one that begins with the marker and is not compressed.
THEOREM ServiceImplementsStore ==
    ASSUME Wide = {}, \A k \in Keys : Hash[k] # {}
    PROVE  Spec => ImplementsStore
  <1>1. Init => MapWithDeadlines!Init
    <2> SUFFICES ASSUME Init PROVE MapWithDeadlines!Init
      OBVIOUS
    <2>1. \A k \in Keys : Answer(k) = Null
      BY DEF Init, Answer, Readable, EmptyCache, Cached
    <2>2. QED
      BY <2>1 DEF Init, MapWithDeadlines!Init
  <1>2. IInv /\ IInv' /\ [Next]_vars => [MapWithDeadlines!Next]_(MapWithDeadlines!vars)
    BY StepRefines
  <1>3. IInv /\ IInv' /\ [Next]_vars =>
           [\A k \in Keys, v \in Faithful, time \in TTLs \cup {Undefined} :
               Set(k, v, time) => Answer(k)' \in {v, Null}]_vars
    BY SetsAreAnswered
  <1>4. QED
    BY Inductive, <1>1, <1>2, <1>3, PTL DEF Spec, ImplementsStore, MapWithDeadlines!Spec

-----------------------------------------------------------------------------
\* That every key is found.
AlwaysFound == Wide = {} /\ \A k \in Keys : Hash[k] # {}

-----------------------------------------------------------------------------
(* Snapshots.                                                              *)

\* What a whole snapshot is: no more than fits into the cache.
IsSnapshot(f) ==
    /\ DOMAIN f \subseteq Keys /\ f = [k \in DOMAIN f |-> f[k]]
    /\ \A k \in DOMAIN f : f[k] \in Values
    /\ IsFiniteSet(DOMAIN f) /\ Cardinality(DOMAIN f) <= MaxEntries

\* What the step of save or load in progress relies on.
StepOK ==
    /\ busy = "exporting" => Scanning \/ keySet = {}
    /\ busy \in {"writing", "renaming"} => snapshot = Content
    /\ busy = "renaming" => tmpFile = snapshot
    /\ busy = "loading" =>
          LET saved == IF file = NoFile THEN << >> ELSE file
          IN  loading \subseteq DOMAIN saved
              /\ Content = [k \in DOMAIN saved \ loading |-> saved[k]]

PInv ==
    /\ IInv
    /\ file = NoFile \/ IsSnapshot(file)
    /\ busy \in {"no", "exporting", "writing", "renaming", "loading"}
    /\ loading \subseteq Keys /\ crashes \in 0..MaxCrashes
    /\ StepOK

LEMMA PInit == PersistenceInit => PInv
  <1> SUFFICES ASSUME PersistenceInit PROVE PInv
    OBVIOUS
  <1>1. IInv
    BY InitInv DEF PersistenceInit
  <1>2. StepOK
    BY DEF PersistenceInit, StepOK
  <1>3. QED
    BY <1>1, <1>2, CrashesAssumption DEF PersistenceInit, PInv

\* The content of the cache is a snapshot.
LEMMA ContentIsSnapshot == ASSUME IInv PROVE IsSnapshot(Content)
  <1>1. EngineOK(cache) /\ DOMAIN Content = Cached(cache)
    BY DEF IInv, Content
  <1>2. /\ Cached(cache) \subseteq Keys
        /\ \A k \in Cached(cache) : cache.entries[k].value \in Values
    BY <1>1 DEF EngineOK, CacheTypeOK, Entry
  <1>3. IsFiniteSet(Cached(cache)) /\ Cardinality(Cached(cache)) <= MaxEntries
    BY <1>1, CachedCount DEF EngineOK
  <1>4. QED
    BY <1>1, <1>2, <1>3 DEF IsSnapshot, Content

\* The step of an export: the scan goes on.
LEMMA ExportGoesOn ==
    ASSUME NEW k \in scan.left, ExportNext(k)
    PROVE  Scanning'
  <1>1. /\ scan'.stale = IF Readable(k) THEN scan.stale ELSE scan.stale \cup {k}
        /\ scan'.entries = IF Readable(k)
                           THEN [x \in DOMAIN scan.entries \cup {k} |->
                                    IF x = k THEN cache.entries[k].value
                                    ELSE scan.entries[x]]
                           ELSE scan.entries
    BY DEF ExportNext
  <1>2. CASE Readable(k)
    <2>1. k \in DOMAIN scan'.entries
      BY <1>1, <1>2
    <2>2. DOMAIN NoScan.entries = {}
      BY DEF NoScan
    <2>3. QED
      BY <2>1, <2>2 DEF Scanning
  <1>3. CASE ~Readable(k)
    <2>1. k \in scan'.stale
      BY <1>1, <1>3
    <2>2. QED
      BY <2>1 DEF Scanning, NoScan
  <1>4. QED
    BY <1>2, <1>3

\* What the loop of an export hands over is the content of the cache.
LEMMA ExportIsContent ==
    ASSUME Wide = {}, IInv, scan.left = {}, Scanning \/ keySet = {}
    PROVE  scan.entries = Content
  <1>1. Cached(cache) \subseteq keySet /\ ScanOK(cache, keySet, scan)
    BY DEF IInv, KeysOK
  <1>2. CASE Scanning
    BY <1>1, <1>2 DEF Scanning, ScanOK, Content
  <1>3. CASE ~Scanning
    <2>1. Cached(cache) = {} /\ scan.entries = << >>
      BY <1>1, <1>3 DEF Scanning, NoScan
    <2>2. << >> = [k \in {} |-> cache.entries[k].value]
      OBVIOUS
    <2>3. QED
      BY <2>1, <2>2 DEF Content
  <1>4. QED
    BY <1>2, <1>3

LEMMA SaveKeeps ==
    ASSUME Wide = {}, PInv, SaveStarts \/ SaveStep
    PROVE  PInv' /\ (file' # file => file' = Content)
  <1>1. IInv /\ StepOK /\ (file = NoFile \/ IsSnapshot(file))
        /\ loading \subseteq Keys /\ crashes \in 0..MaxCrashes
    BY DEF PInv
  <1>2. ASSUME UNCHANGED vars PROVE IInv' /\ Content' = Content
    <2>1. IInv'
      BY <1>1, <1>2, NextInv
    <2>2. QED
      BY <1>2, <2>1 DEF vars, Content
  <1>3. CASE SaveStarts
    <2>1. /\ busy' = "exporting" /\ UNCHANGED <<file, loading, crashes>>
          /\ ExportEntries \/ (keySet = {} /\ UNCHANGED vars)
      BY <1>3 DEF SaveStarts, disk
    <2>2. CASE ExportEntries
      <3>1. IInv'
        BY <1>1, <2>2, NextInv DEF Next
      <3>2. scan'.left = keySet /\ keySet # {}
        BY <2>2 DEF ExportEntries, NoScan
      <3>3. Scanning'
        BY <3>2 DEF Scanning, NoScan
      <3>4. QED
        BY <1>1, <2>1, <3>1, <3>3 DEF PInv, StepOK
    <2>3. CASE keySet = {} /\ UNCHANGED vars
      <3>1. IInv' /\ keySet' = {}
        BY <1>2, <2>3 DEF vars
      <3>2. QED
        BY <1>1, <2>1, <3>1 DEF PInv, StepOK
    <2>4. QED
      BY <2>1, <2>2, <2>3
  <1>4. CASE SaveExports
    <2>1. busy = "exporting" /\ (Scanning \/ keySet = {})
      BY <1>1, <1>4 DEF SaveExports, StepOK
    <2>2. ASSUME NEW k \in scan.left, ExportNext(k), UNCHANGED pvars
          PROVE  PInv' /\ file' = file
      <3>1. IInv' /\ Scanning'
        BY <1>1, <2>2, NextInv, ExportGoesOn DEF Next
      <3>2. QED
        BY <1>1, <2>1, <2>2, <3>1 DEF PInv, StepOK, pvars
    <2>3. ASSUME scan.left = {}, ExportReturns \/ (~Scanning /\ UNCHANGED vars),
                 snapshot' = scan.entries, busy' = "writing",
                 UNCHANGED <<file, loading, crashes>>
          PROVE  PInv' /\ file' = file
      <3>1. IInv' /\ cache' = cache
        BY <1>1, <2>3, NextInv DEF Next, ExportReturns, vars
      <3>2. snapshot' = Content'
        BY <1>1, <2>1, <2>3, <3>1, ExportIsContent DEF Content
      <3>3. QED
        BY <1>1, <2>3, <3>1, <3>2 DEF PInv, StepOK
    <2>4. QED
      BY <1>4, <2>2, <2>3 DEF SaveExports
  <1>5. CASE SaveWrites
    <2>1. /\ busy = "writing" /\ busy' = "renaming" /\ tmpFile' = snapshot
          /\ UNCHANGED <<vars, file, snapshot, loading, crashes>>
      BY <1>5 DEF SaveWrites
    <2>2. IInv' /\ snapshot' = Content' /\ tmpFile' = snapshot'
      BY <1>1, <1>2, <2>1 DEF StepOK
    <2>3. QED
      BY <1>1, <2>1, <2>2 DEF PInv, StepOK
  <1>6. CASE SaveRenames
    <2>1. /\ busy = "renaming" /\ busy' = "no" /\ file' = tmpFile
          /\ UNCHANGED <<vars, loading, crashes>>
      BY <1>6 DEF SaveRenames
    <2>2. IInv' /\ file' = Content
      BY <1>1, <1>2, <2>1 DEF StepOK
    <2>3. IsSnapshot(file')
      BY <1>1, <2>2, ContentIsSnapshot
    <2>4. QED
      BY <1>1, <2>1, <2>2, <2>3 DEF PInv, StepOK
  <1>7. CASE SaveFails
    <2>1. busy' = "no" /\ UNCHANGED <<vars, file, loading, crashes>>
      BY <1>7 DEF SaveFails
    <2>2. QED
      BY <1>1, <1>2, <2>1 DEF PInv, StepOK
  <1>8. QED
    BY <1>3, <1>4, <1>5, <1>6, <1>7 DEF SaveStep

LEMMA CrashKeeps ==
    ASSUME PInv, Crash
    PROVE  PInv' /\ file' = file
  <1>1. /\ cache' = EmptyCache /\ keySet' = {} /\ bloom' = {}
        /\ ttlTimers' = [k \in Keys |-> Null] /\ ttlExpiry' = [k \in Keys |-> Null]
        /\ timers' = {} /\ scan' = NoScan /\ UNCHANGED <<file, now>>
        /\ busy' = "loading" /\ crashes' = crashes + 1 /\ crashes < MaxCrashes
        /\ loading' = IF file = NoFile THEN {} ELSE DOMAIN file
    BY DEF Crash
  <1>2. EngineOK(cache') /\ Cached(cache') = {}
    <2>1. Cached(EmptyCache) = {}
      BY DEF Cached, EmptyCache
    <2>2. QED
      BY <1>1, <2>1, EmptyCacheOK, MaxEntriesAssumption DEF EngineOK
  <1>3. IInv'
    <2>1. KeysOK(cache', keySet', bloom')
      BY <1>1, <1>2 DEF KeysOK
    <2>2. TTLOK(ttlTimers', ttlExpiry', timers')
      BY <1>1 DEF TTLOK
    <2>3. ScanOK(cache', keySet', scan') /\ now' \in Nat
      BY <1>1, NoScanOK DEF PInv, IInv
    <2>4. QED
      BY <1>2, <2>1, <2>2, <2>3 DEF IInv
  <1>4. StepOK'
    <2> DEFINE saved == IF file' = NoFile THEN << >> ELSE file'
    <2>1. loading' = DOMAIN saved
      BY <1>1
    <2>2. Content' = << >>
      <3>1. Content' = [k \in {} |-> cache'.entries[k].value]
        BY <1>2 DEF Content
      <3>2. QED
        BY <3>1
    <2>3. << >> = [k \in DOMAIN saved \ loading' |-> saved[k]]
      BY <2>1
    <2> HIDE DEF saved
    <2>4. /\ loading' \subseteq DOMAIN saved
          /\ Content' = [k \in DOMAIN saved \ loading' |-> saved[k]]
      BY <2>1, <2>2, <2>3
    <2>5. QED
      BY <1>1, <2>4 DEF StepOK, saved
  <1>5. loading' \subseteq Keys
    BY <1>1 DEF PInv, IsSnapshot
  <1>6. crashes' \in 0..MaxCrashes
    BY <1>1, CrashesAssumption DEF PInv
  <1>7. QED
    BY <1>1, <1>3, <1>4, <1>5, <1>6 DEF PInv

\* An entry of the snapshot finds room, because the snapshot fits.
LEMMA LoadKeeps ==
    ASSUME PInv, NEW k \in loading, LoadNext(k)
    PROVE  PInv' /\ file' = file
  <1>1. /\ busy = "loading" /\ SetRaw(k, file[k]) /\ loading' = loading \ {k}
        /\ UNCHANGED <<file, tmpFile, snapshot, busy, crashes>>
    BY DEF LoadNext, disk
  <1>2. k \in Keys /\ EngineOK(cache) /\ IInv
    BY DEF PInv, IInv
  <1>3. /\ file # NoFile /\ loading \subseteq DOMAIN file
        /\ Content = [x \in DOMAIN file \ loading |-> file[x]]
    BY <1>1 DEF PInv, StepOK
  <1>4. IsSnapshot(file) /\ k \in DOMAIN file /\ file[k] \in Values
    BY <1>3 DEF PInv, IsSnapshot
  <1>5. /\ Cached(cache) = DOMAIN file \ loading
        /\ \A x \in Cached(cache) : cache.entries[x].value = file[x]
    <2>1. DOMAIN Content = DOMAIN file \ loading
      BY <1>3
    <2>2. DOMAIN Content = Cached(cache)
      BY DEF Content
    <2>3. \A x \in Cached(cache) : Content[x] = cache.entries[x].value
      BY DEF Content
    <2>4. \A x \in DOMAIN file \ loading : Content[x] = file[x]
      BY <1>3
    <2>5. QED
      BY <2>1, <2>2, <2>3, <2>4
  <1>6. IInv'
    BY <1>1, <1>2, <1>4, NextInv DEF Next
  <1>7. k \notin Cached(cache) /\ ~Full(cache)
    <2>1. IsFiniteSet(DOMAIN file) /\ Cardinality(DOMAIN file) <= MaxEntries
      BY <1>4 DEF IsSnapshot
    <2>2. Cardinality(Cached(cache)) = Len(cache.order)
      BY <1>2, CachedCount DEF EngineOK
    <2>3. /\ Cardinality(Cached(cache)) <= Cardinality(DOMAIN file)
          /\ Cardinality(Cached(cache)) # Cardinality(DOMAIN file)
      BY <1>4, <1>5, <2>1, FS_Subset
    <2>4. Cardinality(DOMAIN file) \in Nat /\ MaxEntries \in Nat /\ Len(cache.order) \in Nat
      BY <1>2, <2>1, FS_CardinalityType, MaxEntriesAssumption DEF EngineOK, CacheTypeOK
    <2>5. QED
      BY <1>5, <2>1, <2>2, <2>3, <2>4 DEF Full
  <1>8. /\ Cached(cache') = Cached(cache) \cup {k}
        /\ cache'.entries[k].value = file[k]
        /\ \A x \in Cached(cache) : cache'.entries[x] = cache.entries[x]
    <2>1. cache' = Insert(cache, k, file[k])
      BY <1>1, <1>7 DEF SetRaw, Store, Put
    <2>2. /\ Cached(Insert(cache, k, file[k])) = Cached(cache) \cup {k}
          /\ Insert(cache, k, file[k]).entries[k] = NewEntry(file[k])
          /\ \A x \in Cached(Insert(cache, k, file[k])) \ {k} :
                Insert(cache, k, file[k]).entries[x] = cache.entries[x]
      BY <1>2, <1>4, <1>7, InsertAdds DEF EngineOK
    <2>3. QED
      BY <1>7, <2>1, <2>2 DEF NewEntry
  <1>9. Content' = [x \in DOMAIN file \ loading' |-> file[x]]
    <2>1. Cached(cache') = DOMAIN file \ loading'
      BY <1>1, <1>4, <1>5, <1>8
    <2>2. \A x \in Cached(cache') : cache'.entries[x].value = file[x]
      BY <1>5, <1>8
    <2>3. QED
      BY <2>1, <2>2 DEF Content
  <1>10. StepOK'
    BY <1>1, <1>3, <1>9 DEF StepOK
  <1>11. QED
    BY <1>1, <1>6, <1>10 DEF PInv

LEMMA PStep ==
    ASSUME Wide = {}, PInv, [PersistenceNext]_allvars
    PROVE  PInv' /\ (file' # file => file' = Content)
  <1>1. CASE busy = "no" /\ Next /\ UNCHANGED pvars
    <2>1. IInv'
      BY <1>1, NextInv DEF PInv
    <2>2. QED
      BY <1>1, <2>1 DEF PInv, StepOK, pvars
  <1>2. CASE SaveStarts \/ SaveStep
    BY <1>2, SaveKeeps
  <1>3. CASE Crash
    BY <1>3, CrashKeeps
  <1>4. CASE LoadStep
    <2>1. CASE \E k \in loading : LoadNext(k)
      BY <2>1, LoadKeeps
    <2>2. CASE Loaded
      <3>1. busy' = "no" /\ UNCHANGED <<vars, file, loading, crashes>>
        BY <2>2 DEF Loaded, disk
      <3>2. IInv'
        BY <3>1, NextInv DEF PInv
      <3>3. QED
        BY <3>1, <3>2 DEF PInv, StepOK
    <2>3. QED
      BY <1>4, <2>1, <2>2 DEF LoadStep
  <1>5. CASE UNCHANGED allvars
    <2>1. UNCHANGED vars /\ UNCHANGED pvars
      BY <1>5 DEF allvars
    <2>2. IInv' /\ Content' = Content /\ Scanning' = Scanning /\ keySet' = keySet
      BY <2>1, NextInv DEF PInv, vars, Content, Scanning, NoScan
    <2>3. QED
      BY <2>1, <2>2 DEF PInv, StepOK, pvars
  <1>6. QED
    BY <1>1, <1>2, <1>3, <1>4, <1>5 DEF PersistenceNext, PersistenceStep

LEMMA PInductive == ASSUME Wide = {} PROVE PersistenceSpec => []PInv
  <1>1. PInv /\ [PersistenceNext]_allvars => PInv'
    BY PStep
  <1>2. QED
    BY PInit, <1>1, PTL DEF PersistenceSpec

\* SavesTheContent, of save and every way in which it fails or the process
\* dies: a snapshot on disk is only ever replaced by the whole content of the
\* cache, if no value is too long for the bridge.
THEOREM SnapshotsAreWhole ==
    ASSUME Wide = {} PROVE PersistenceSpec => SavesTheContent
  <1>1. PInv /\ [PersistenceNext]_allvars => [file' # file => file' = Content]_allvars
    BY PStep
  <1>2. QED
    BY PInductive, <1>1, PTL DEF PersistenceSpec, SavesTheContent

\* RestoreIsComplete, of load: what a restart puts back is the snapshot, none
\* of its entries evicted by another, and get finds each of them.
THEOREM RestoresAreComplete ==
    ASSUME AlwaysFound PROVE PersistenceSpec => []RestoreIsComplete
  <1>1. PInv => RestoreIsComplete
    <2> SUFFICES ASSUME PInv, busy = "loading", loading = {}
                 PROVE  /\ Content = IF file = NoFile THEN << >> ELSE file
                        /\ \A k \in Cached(cache) : Answer(k) # Null
      BY DEF RestoreIsComplete
    <2> DEFINE saved == IF file = NoFile THEN << >> ELSE file
    <2>1. Content = [k \in DOMAIN saved |-> saved[k]]
      BY DEF PInv, StepOK
    <2>2. saved = [k \in DOMAIN saved |-> saved[k]]
      BY DEF PInv, IsSnapshot
    <2>3. \A k \in Cached(cache) : Answer(k) # Null
      <3>1. EngineOK(cache) /\ Cached(cache) \subseteq Keys
        BY DEF PInv, IInv, EngineOK, CacheTypeOK
      <3>2. \A k \in Cached(cache) : Answer(k) = Contents(cache)[k]
        BY <3>1, AnswersAreContents DEF AlwaysFound, PInv, Contents
      <3>3. QED
        BY <3>1, <3>2, PresentIsCached
    <2>4. QED
      BY <2>1, <2>2, <2>3
  <1>2. QED
    BY PInductive, <1>1, PTL DEF AlwaysFound

\* ServiceOK, of crashes, restores and saves: the known keys and the filter
\* cover the cache at every moment of them.
THEOREM ServiceSurvives ==
    ASSUME AlwaysFound PROVE PersistenceSpec => []ServiceOK
  <1>1. PInv => ServiceOK
    <2> SUFFICES ASSUME PInv PROVE ServiceOK
      OBVIOUS
    <2>1. IInv
      BY DEF PInv
    <2>2. TypeOK
      BY <2>1 DEF IInv, EngineOK, KeysOK, TTLOK, ScanOK, TypeOK
    <2>3. KnownKeys /\ NoFalseNegative
      BY <2>1 DEF IInv, EngineOK, CacheTypeOK, KeysOK, AlwaysFound,
                  KnownKeys, NoFalseNegative, Check
    <2>4. QED
      BY <2>2, <2>3 DEF PInv, IsSnapshot, PersistenceTypeOK, ServiceOK
  <1>2. QED
    BY PInductive, <1>1, PTL DEF AlwaysFound

-----------------------------------------------------------------------------
(* Locks.                                                                  *)

\* A claim that has not run out is the entry's, until the entry's own expiry.
LeaseOK(o, l) ==
    claim[o][l] > now =>
        /\ l \in Cached(cache)
        /\ cache.entries[l].value = Encode(o)
        /\ ttlExpiry[l] = claim[o][l]

\* No save and no load is in progress.
AtRest == file = NoFile /\ busy = "no" /\ loading = {} /\ crashes = 0

ClaimsOK ==
    /\ claim \in [Owners -> [Locks -> Int]]
    /\ lease \in [Locks -> Int \cup {Null}]

LInv ==
    /\ IInv
    /\ AtRest
    /\ ClaimsOK
    /\ \A o \in Owners, l \in Locks : LeaseOK(o, l)

\* What an owner relies on, besides that every key is found: room for all.
NeverFull == IsFiniteSet(Keys) /\ Cardinality(Keys) <= MaxEntries

-----------------------------------------------------------------------------

\* A key that is not cached finds room.
LEMMA RoomForAll ==
    ASSUME NeverFull, NEW c, EngineOK(c), NEW k \in Keys \ Cached(c)
    PROVE  ~Full(c)
  <1>1. Cached(c) \subseteq Keys /\ Len(c.order) \in Nat
    BY DEF EngineOK, CacheTypeOK
  <1>2. IsFiniteSet(Cached(c)) /\ Cardinality(Cached(c)) = Len(c.order)
    BY CachedCount DEF EngineOK
  <1>3. Cardinality(Cached(c)) <= Cardinality(Keys) /\ Cardinality(Cached(c)) # Cardinality(Keys)
    BY <1>1, FS_Subset DEF NeverFull
  <1>4. Cardinality(Keys) \in Nat /\ MaxEntries \in Nat
    BY FS_CardinalityType, MaxEntriesAssumption DEF NeverFull
  <1>5. QED
    BY <1>1, <1>2, <1>3, <1>4 DEF Full, NeverFull

\* A write stores its value and leaves the others' alone.
LEMMA PutEffect ==
    ASSUME NeverFull, NEW c, EngineOK(c), NEW k \in Keys, NEW v \in Values
    PROVE  /\ k \in Cached(Put(c, k, v)) /\ Put(c, k, v).entries[k].value = v
           /\ \A x \in Cached(c) \ {k} : /\ x \in Cached(Put(c, k, v))
                                         /\ Put(c, k, v).entries[x] = c.entries[x]
  <1>1. CASE k \in Cached(c)
    BY <1>1, OverwriteKeeps, OverwriteValue DEF EngineOK, Put
  <1>2. CASE k \notin Cached(c)
    <2>1. ~Full(c)
      BY <1>2, RoomForAll
    <2>2. /\ Cached(Insert(c, k, v)) = Cached(c) \cup {k}
          /\ Insert(c, k, v).entries[k] = NewEntry(v)
          /\ \A x \in Cached(Insert(c, k, v)) \ {k} : Insert(c, k, v).entries[x] = c.entries[x]
      BY <1>2, <2>1, InsertAdds DEF EngineOK
    <2>3. QED
      BY <1>2, <2>2 DEF Put, NewEntry
  <1>3. QED
    BY <1>1, <1>2

\* A cache that a read has touched holds the same values.
SameValues(c) ==
    /\ EngineOK(c) /\ Cached(c) = Cached(cache)
    /\ \A x \in Cached(c) : c.entries[x].value = cache.entries[x].value

\* Whatever happened to k, the other keys have their values and expiries.
OthersStay(k) ==
    \A x \in Cached(cache) \ {k} :
        /\ x \in Cached(cache') /\ ttlExpiry'[x] = ttlExpiry[x]
        /\ cache'.entries[x].value = cache.entries[x].value

\* A set of the service, for a time to live that is passed.
LEMMA SetEffect ==
    ASSUME NeverFull, IInv, NEW c, SameValues(c), NEW k \in Keys, NEW v \in Payloads,
           NEW time, SetFrom(c, k, v, time)
    PROVE  /\ k \in Cached(cache') /\ cache'.entries[k].value = Encode(v)
           /\ time \in Nat \ {0} => ttlExpiry'[k] = now + time
           /\ OthersStay(k)
  <1>1. cache' = Put(c, k, Encode(v)) /\ Encode(v) \in Values
    BY EncodeType DEF SetFrom, Store
  <1>2. /\ k \in Cached(cache') /\ cache'.entries[k].value = Encode(v)
        /\ \A x \in Cached(cache) \ {k} :
              x \in Cached(cache') /\ cache'.entries[x].value = cache.entries[x].value
    BY <1>1, PutEffect DEF SameValues
  <1>3. ttlExpiry \in [Keys -> Nat \cup {Null}] /\ Cached(cache) \subseteq Keys
    BY DEF IInv, TTLOK, EngineOK, CacheTypeOK
  <1>4. time \in Nat => Effective(time) = time
    BY TTLAssumption DEF Effective
  <1>5. \/ ttlExpiry' = [ttlExpiry EXCEPT ![k] = now + Effective(time)]
        \/ ttlExpiry' = ttlExpiry /\ ~(Effective(time) > 0)
    BY DEF SetFrom, Arm, ttl
  <1>6. QED
    BY <1>2, <1>3, <1>4, <1>5 DEF OthersStay

\* A deletion by the service.
LEMMA DeleteEffect ==
    ASSUME IInv, NEW c, SameValues(c), NEW k \in Keys, cache' = Delete(c, k),
           ttlExpiry' = [ttlExpiry EXCEPT ![k] = Null]
    PROVE  OthersStay(k)
  <1>1. \A x \in Cached(c) \ {k} : /\ x \in Cached(Delete(c, k))
                                   /\ Delete(c, k).entries[x] = c.entries[x]
    <2>1. CASE k \in Cached(c)
      BY <2>1, UnlinkRemoves DEF Delete, SameValues, EngineOK
    <2>2. CASE k \notin Cached(c)
      BY <2>2 DEF Delete
    <2>3. QED
      BY <2>1, <2>2
  <1>2. ttlExpiry \in [Keys -> Nat \cup {Null}] /\ Cached(cache) \subseteq Keys
    BY DEF IInv, TTLOK, EngineOK, CacheTypeOK
  <1>3. QED
    BY <1>1, <1>2 DEF SameValues, OthersStay

LEMMA ReadsKeepValues ==
    ASSUME IInv, NEW k
    PROVE  SameValues(cache) /\ SameValues(Lookup(cache, k))
  BY LookupEngine DEF IInv, SameValues

\* Who holds a lock is who has a claim on it.
LEMMA ClaimsHold ==
    ASSUME AlwaysFound, LInv, NEW o \in Owners, NEW l \in Locks, claim[o][l] > now
    PROVE  Answer(l) = o
  <1>1. l \in Cached(cache) /\ cache.entries[l].value = Encode(o)
    BY DEF LInv, LeaseOK
  <1>2. Answer(l) = Value(cache, l)
    BY AnswersAreContents, LocksAssumption DEF AlwaysFound, LInv
  <1>3. QED
    BY <1>1, <1>2, DecodeEncode, LocksAssumption DEF Value, Faithful

-----------------------------------------------------------------------------
(* The invariant.                                                          *)

\* What a timer does to a key on which nobody has a claim.
LEMMA OthersKept ==
    ASSUME LInv, IInv', UNCHANGED <<pvars, claims, now>>, NEW k, OthersStay(k),
           \A o \in Owners, l \in Locks : claim[o][l] > now => l # k
    PROVE  LInv'
  <1>1. ASSUME NEW o \in Owners, NEW l \in Locks PROVE LeaseOK(o, l)'
    BY DEF LInv, LeaseOK, OthersStay, claims
  <1>2. AtRest' /\ ClaimsOK'
    BY DEF LInv, AtRest, pvars, ClaimsOK, claims
  <1>3. QED
    BY <1>1, <1>2 DEF LInv

\* What another client does to a key: an owner loses its claim.
LEMMA VoidedKept ==
    ASSUME LInv, IInv', UNCHANGED <<pvars, now>>, NEW k, OthersStay(k), Voided(k)
    PROVE  LInv'
  <1>1. ClaimsOK
    BY DEF LInv
  <1>2. ClaimsOK' /\ \A o \in Owners, l \in Locks :
                        claim'[o][l] = IF l = k THEN 0 ELSE claim[o][l]
    BY <1>1 DEF Voided, ClaimsOK
  <1>3. now \in Nat
    BY DEF LInv, IInv
  <1>4. ASSUME NEW o \in Owners, NEW l \in Locks PROVE LeaseOK(o, l)'
    <2>1. CASE l = k
      BY <1>2, <1>3, <2>1 DEF LeaseOK
    <2>2. CASE l # k
      BY <1>2, <2>2 DEF LInv, LeaseOK, OthersStay
    <2>3. QED
      BY <2>1, <2>2
  <1>5. AtRest'
    BY DEF LInv, AtRest, pvars
  <1>6. QED
    BY <1>2, <1>4, <1>5 DEF LInv

\* What an owner does to a lock on which nobody else has a claim.
LEMMA OwnerKept ==
    ASSUME LInv, IInv', UNCHANGED <<pvars, now>>,
           NEW o \in Owners, NEW l \in Locks, NEW time \in Int, Told(o, l, time),
           lease' \in [Locks -> Int \cup {Null}],
           \A p \in Owners : claim[p][l] > now => p = o,
           OthersStay(l),
           time > now => /\ l \in Cached(cache') /\ ttlExpiry'[l] = time
                         /\ cache'.entries[l].value = Encode(o)
    PROVE  LInv'
  <1>1. claim \in [Owners -> [Locks -> Int]]
    BY DEF LInv, ClaimsOK
  <1>2. /\ claim' \in [Owners -> [Locks -> Int]] /\ claim'[o][l] = time
        /\ \A p \in Owners, x \in Locks :
              p # o \/ x # l => claim'[p][x] = claim[p][x]
    BY <1>1 DEF Told
  <1>3. ASSUME NEW p \in Owners, NEW x \in Locks PROVE LeaseOK(p, x)'
    <2>1. CASE x = l /\ p = o
      BY <1>2, <2>1 DEF LeaseOK
    <2>2. CASE x = l /\ p # o
      BY <1>2, <2>2 DEF LeaseOK
    <2>3. CASE x # l
      BY <1>2, <2>3 DEF LInv, LeaseOK, OthersStay
    <2>4. QED
      BY <2>1, <2>2, <2>3
  <1>4. AtRest'
    BY DEF LInv, AtRest, pvars
  <1>5. QED
    BY <1>2, <1>3, <1>4 DEF LInv, ClaimsOK

\* Nobody has a claim on a lock that another holds, or that nobody holds.
LEMMA OnlyHolderClaims ==
    ASSUME AlwaysFound, LInv, NEW l \in Locks, NEW p \in Owners, claim[p][l] > now
    PROVE  Answer(l) # Null /\ \A o \in Owners : Answer(l) = o => p = o
  BY ClaimsHold, LocksAssumption, PayloadsAssumption, NullAssumption

LEMMA CappedType ==
    ASSUME NEW time \in LockTTLs
    PROVE  /\ Capped(time) \in Int /\ (time > 0 => Capped(time) > 0)
           /\ Effective(Capped(time)) = Capped(time)
  BY LockTTLAssumption DEF Capped, Effective

\* What an owner is told, and the lease that is recorded.
LEMMA GrantEffect ==
    ASSUME LInv, NEW o \in Owners, NEW l \in Locks, NEW time \in Int, Grant(o, l, time)
    PROVE  Told(o, l, now + time) /\ lease' \in [Locks -> Int \cup {Null}]
  BY DEF Grant, LInv, ClaimsOK

LEMMA LInit == LockInit => LInv
  <1> SUFFICES ASSUME LockInit PROVE LInv
    OBVIOUS
  <1>1. IInv /\ now \in Nat
    BY InitInv DEF LockInit, PersistenceInit, IInv
  <1>2. claim = [o \in Owners |-> [l \in Locks |-> 0]] /\ lease = [l \in Locks |-> Null]
    BY DEF LockInit
  <1>3. \A o \in Owners, l \in Locks : LeaseOK(o, l)
    BY <1>1, <1>2 DEF LeaseOK
  <1>4. AtRest
    BY DEF LockInit, PersistenceInit, AtRest
  <1>5. QED
    BY <1>1, <1>2, <1>3, <1>4 DEF LInv, ClaimsOK

LEMMA AcquireKeeps ==
    ASSUME NeverFull, AlwaysFound, LInv,
           NEW l \in Locks, NEW o \in Owners, NEW time \in LockTTLs, Acquire(l, o, time)
    PROVE  LInv'
  <1>1. /\ SetFrom(cache, l, o, Capped(time)) /\ Grant(o, l, Capped(time))
        /\ ~Scanning /\ Answer(l) = Null /\ UNCHANGED <<scan, now, pvars>>
    BY DEF Acquire, Serving
  <1>2. l \in Keys /\ o \in Payloads /\ now \in Nat /\ IInv
    BY LocksAssumption DEF LInv, IInv
  <1>3. SameValues(cache)
    BY <1>2, ReadsKeepValues
  <1>4. IInv'
    BY <1>1, <1>2, <1>3, CappedType, SetFromKeeps DEF SameValues
  <1>5. /\ l \in Cached(cache') /\ cache'.entries[l].value = Encode(o)
        /\ Capped(time) \in Nat \ {0} => ttlExpiry'[l] = now + Capped(time)
        /\ OthersStay(l)
    BY <1>1, <1>2, <1>3, SetEffect
  <1>6. \A p \in Owners : ~(claim[p][l] > now)
    BY <1>1, OnlyHolderClaims
  <1>7. now + Capped(time) \in Int /\ (now + Capped(time) > now => Capped(time) \in Nat \ {0})
    BY <1>2, CappedType
  <1>8. Told(o, l, now + Capped(time)) /\ lease' \in [Locks -> Int \cup {Null}]
    BY <1>1, CappedType, GrantEffect
  <1>9. QED
    BY <1>1, <1>4, <1>5, <1>6, <1>7, <1>8, OwnerKept

LEMMA ExtendKeeps ==
    ASSUME NeverFull, AlwaysFound, LInv,
           NEW l \in Locks, NEW o \in Owners, NEW time \in LockTTLs, Extend(l, o, time)
    PROVE  LInv'
  <1>1. /\ SetFrom(Read(cache, l), l, o, Capped(time)) /\ Grant(o, l, Capped(time))
        /\ ~Scanning /\ Answer(l) = o /\ time > 0 /\ UNCHANGED <<scan, now, pvars>>
    BY DEF Extend, Serving
  <1>2. l \in Keys /\ o \in Payloads /\ now \in Nat /\ IInv
    BY LocksAssumption DEF LInv, IInv
  <1>3. SameValues(Read(cache, l))
    <2>1. o # Null
      BY <1>2, PayloadsAssumption, NullAssumption
    <2>2. l \in Cached(cache)
      BY <1>1, <2>1 DEF Answer, Readable
    <2>3. QED
      BY <1>2, <2>2, ReadsKeepValues DEF Lookup
  <1>4. IInv'
    BY <1>1, <1>2, <1>3, CappedType, SetFromKeeps DEF SameValues
  <1>5. /\ l \in Cached(cache') /\ cache'.entries[l].value = Encode(o)
        /\ Capped(time) \in Nat \ {0} => ttlExpiry'[l] = now + Capped(time)
        /\ OthersStay(l)
    BY <1>1, <1>2, <1>3, SetEffect
  <1>6. \A p \in Owners : claim[p][l] > now => p = o
    BY <1>1, OnlyHolderClaims
  <1>7. now + Capped(time) \in Int /\ Capped(time) \in Nat \ {0}
    BY <1>1, <1>2, CappedType
  <1>8. Told(o, l, now + Capped(time)) /\ lease' \in [Locks -> Int \cup {Null}]
    BY <1>1, CappedType, GrantEffect
  <1>9. QED
    BY <1>1, <1>4, <1>5, <1>6, <1>7, <1>8, OwnerKept

LEMMA ReleaseKeeps ==
    ASSUME AlwaysFound, LInv, NEW l \in Locks, NEW o \in Owners, Release(l, o)
    PROVE  LInv'
  <1>1. /\ DeleteFrom(Read(cache, l), l) /\ Told(o, l, 0)
        /\ ~Scanning /\ Answer(l) = o /\ UNCHANGED <<scan, now, pvars, lease>>
    BY DEF Release, Serving
  <1>2. l \in Keys /\ o \in Payloads /\ now \in Nat /\ IInv
    BY LocksAssumption DEF LInv, IInv
  <1>3. SameValues(Read(cache, l))
    <2>1. o # Null
      BY <1>2, PayloadsAssumption, NullAssumption
    <2>2. l \in Cached(cache)
      BY <1>1, <2>1 DEF Answer, Readable
    <2>3. QED
      BY <1>2, <2>2, ReadsKeepValues DEF Lookup
  <1>4. IInv'
    BY <1>1, <1>2, <1>3, DeleteFromKeeps DEF SameValues
  <1>5. OthersStay(l)
    BY <1>1, <1>2, <1>3, DeleteEffect DEF DeleteFrom, ForgetTTL
  <1>6. \A p \in Owners : claim[p][l] > now => p = o
    BY <1>1, OnlyHolderClaims
  <1>7. lease' \in [Locks -> Int \cup {Null}]
    BY <1>1 DEF LInv, ClaimsOK
  <1>8. QED
    BY <1>1, <1>2, <1>4, <1>5, <1>6, <1>7, OwnerKept

\* A read changes no value.
LEMMA ReadKeepsLeases ==
    ASSUME LInv, IInv', UNCHANGED <<pvars, claims, now, ttlExpiry>>, SameValues(cache')
    PROVE  LInv'
  <1>1. \A o \in Owners, l \in Locks : LeaseOK(o, l)'
    BY DEF LInv, LeaseOK, SameValues, claims
  <1>2. AtRest' /\ ClaimsOK'
    BY DEF LInv, AtRest, pvars, ClaimsOK, claims
  <1>3. QED
    BY <1>1, <1>2 DEF LInv

LEMMA GetKeeps ==
    ASSUME LInv, NEW k \in Keys, Get(k), UNCHANGED <<pvars, claims>>
    PROVE  LInv'
  <1>1. IInv' /\ IInv
    BY NextInv DEF LInv, Next
  <1>2. cache' = Lookup(cache, k) /\ UNCHANGED <<ttlExpiry, now>>
    BY DEF Get, Lookup, ttl
  <1>3. QED
    BY <1>1, <1>2, ReadsKeepValues, ReadKeepsLeases

\* Whatever another client does to a key, the others keep theirs.
LEMMA WritesStay ==
    ASSUME NeverFull, IInv, NEW k \in Keys, Writes(k)
    PROVE  IInv' /\ OthersStay(k) /\ UNCHANGED now
  <1>1. SameValues(cache) /\ EngineOK(cache)
    BY ReadsKeepValues DEF IInv
  <1>2. ttlExpiry \in [Keys -> Nat \cup {Null}] /\ Cached(cache) \subseteq Keys
    BY DEF IInv, TTLOK, EngineOK, CacheTypeOK
  <1>3. ASSUME NEW v \in Values, cache' = Put(cache, k, v), UNCHANGED ttlExpiry
        PROVE  OthersStay(k)
    BY <1>1, <1>3, PutEffect DEF OthersStay
  <1>4. ASSUME NEW v \in Values, k \in Cached(cache), cache' = Overwrite(cache, k, v),
               UNCHANGED ttlExpiry
        PROVE  OthersStay(k)
    BY <1>3, <1>4 DEF Put
  <1>5. ASSUME NEW v \in Payloads, NEW time \in TTLs \cup {Undefined}, Set(k, v, time)
        PROVE  IInv' /\ OthersStay(k) /\ UNCHANGED now
    BY <1>1, <1>5, NextInv, SetEffect DEF Next, Set
  <1>6. ASSUME NEW v \in Payloads, NEW n \in 1..MaxAccess, CasPut(k, v, n)
        PROVE  IInv' /\ OthersStay(k) /\ UNCHANGED now
    BY <1>4, <1>6, NextInv, PayloadsAssumption DEF Next, CasPut, ttl
  <1>7. ASSUME NEW delta \in Deltas, Incr(k, delta)
        PROVE  IInv' /\ OthersStay(k) /\ UNCHANGED now
    <2>1. cache.entries[k].value + delta \in Values
      BY <1>7, NumbersAssumption DEF Incr, IsNumber
    <2>2. QED
      BY <1>4, <1>7, <2>1, NextInv DEF Next, Incr, ttl
  <1>8. ASSUME NEW time \in TTLs, Touch(k, time)
        PROVE  IInv' /\ OthersStay(k) /\ UNCHANGED now
    <2>1. \A x \in Keys \ {k} : ttlExpiry'[x] = ttlExpiry[x]
      BY <1>2, <1>8 DEF Touch, Arm, ForgetTTL
    <2>2. QED
      BY <1>2, <1>8, <2>1, NextInv DEF Next, Touch, data, OthersStay
  <1>9. ASSUME NEW stored \in Values, SetRaw(k, stored)
        PROVE  IInv' /\ OthersStay(k) /\ UNCHANGED now
    BY <1>3, <1>9, NextInv DEF Next, SetRaw, Store, ttl
  <1>10. ASSUME DeleteKey(k)
         PROVE  IInv' /\ OthersStay(k) /\ UNCHANGED now
    BY <1>1, <1>10, NextInv, DeleteEffect DEF Next, DeleteKey, DeleteFrom, ForgetTTL
  <1>11. QED
    BY <1>5, <1>6, <1>7, <1>8, <1>9, <1>10 DEF Writes

LEMMA TrafficKeeps ==
    ASSUME NeverFull, LInv, Traffic
    PROVE  LInv'
  <1>1. IInv /\ UNCHANGED pvars /\ now \in Nat
    BY DEF Traffic, LInv, IInv
  <1>2. SameValues(cache)
    BY <1>1, ReadsKeepValues
  <1>3. ASSUME NEW k \in Keys, Writes(k), Voided(k)
        PROVE  LInv'
    BY <1>1, <1>3, WritesStay, VoidedKept
  <1>4. CASE ListKeys /\ UNCHANGED claims
    <2>1. IInv' /\ UNCHANGED <<cache, ttlExpiry, now>>
      BY <1>1, <1>4, NextInv DEF Next, ListKeys, ttl
    <2>2. QED
      BY <1>1, <1>2, <1>4, <2>1, ReadKeepsLeases
  <1>5. ASSUME NEW timer \in timers, TimerFires(timer), UNCHANGED claims
        PROVE  LInv'
    <2>1. IInv'
      BY <1>1, <1>5, NextInv DEF Next
    <2>2. PICK k \in Keys : timer = ttlTimers[k] /\ timer # Null
      BY <1>1 DEF IInv, TTLOK
    <2>3. timer = [key |-> k, due |-> ttlExpiry[k]] /\ timer.key = k /\ timer.due = ttlExpiry[k]
      BY <1>1, <2>2 DEF IInv, TTLOK
    <2>4. /\ cache' = Delete(cache, k) /\ ttlExpiry' = [ttlExpiry EXCEPT ![k] = Null]
          /\ UNCHANGED now /\ ttlExpiry[k] <= now
      BY <1>5, <2>3 DEF TimerFires
    <2>5. \A o \in Owners, l \in Locks : claim[o][l] > now => l # k
      <3>1. claim \in [Owners -> [Locks -> Int]] /\ \A o \in Owners, l \in Locks : LeaseOK(o, l)
        BY DEF LInv, ClaimsOK
      <3>2. QED
        BY <1>1, <2>4, <3>1 DEF LeaseOK
    <2>6. OthersStay(k)
      BY <1>1, <1>2, <2>4, DeleteEffect
    <2>7. QED
      BY <1>1, <1>5, <2>1, <2>4, <2>5, <2>6, OthersKept
  <1>6. CASE Tick /\ UNCHANGED claims
    <2>1. IInv' /\ now' = now + 1 /\ UNCHANGED <<cache, ttlExpiry>>
      BY <1>1, <1>6, NextInv DEF Next, Tick, data, ttl
    <2>2. claim \in [Owners -> [Locks -> Int]] /\ \A o \in Owners, l \in Locks : LeaseOK(o, l)
      BY DEF LInv, ClaimsOK
    <2>3. \A o \in Owners, l \in Locks : LeaseOK(o, l)'
      BY <1>1, <1>6, <2>1, <2>2 DEF LeaseOK, claims
    <2>4. ClaimsOK'
      BY <1>6 DEF LInv, ClaimsOK, claims
    <2>5. QED
      BY <1>1, <2>1, <2>3, <2>4 DEF LInv, AtRest, pvars
  <1>7. ASSUME NEW k \in Keys, Get(k), UNCHANGED claims
        PROVE  LInv'
    BY <1>1, <1>7, GetKeeps
  <1>8. QED
    BY <1>3, <1>4, <1>5, <1>6, <1>7 DEF Traffic

LEMMA LStep == NeverFull /\ AlwaysFound /\ LInv /\ [LockCalls \/ Traffic]_lockvars => LInv'
  <1> SUFFICES ASSUME NeverFull, AlwaysFound, LInv, [LockCalls \/ Traffic]_lockvars
               PROVE  LInv'
    OBVIOUS
  <1>1. ASSUME NEW l \in Locks, Refused(l) PROVE LInv'
    BY <1>1, GetKeeps, LocksAssumption DEF Refused
  <1>2. CASE LockCalls
    BY <1>1, <1>2, AcquireKeeps, ExtendKeeps, ReleaseKeeps DEF LockCalls
  <1>3. CASE Traffic
    BY <1>3, TrafficKeeps
  <1>4. CASE UNCHANGED lockvars
    <2>1. UNCHANGED vars /\ UNCHANGED <<pvars, claims>>
      BY <1>4 DEF lockvars
    <2>2. IInv' /\ UNCHANGED <<cache, ttlExpiry, now>>
      BY <2>1, NextInv DEF LInv, vars
    <2>3. QED
      BY <2>1, <2>2, ReadsKeepValues, ReadKeepsLeases DEF LInv
  <1>5. QED
    BY <1>2, <1>3, <1>4

-----------------------------------------------------------------------------

\* LeasesAreHonoured, of acquire, extend and release among the other clients of
\* the cache and its timers: until the time that an owner was told, or until
\* another client writes the entry of the lock, nobody else holds its lock, if
\* the cache has room for every key and finds every key.
THEOREM LeasesHold ==
    ASSUME NeverFull, AlwaysFound PROVE LockSpec => []LeasesAreHonoured
  <1>1. LInv => LeasesAreHonoured
    <2> SUFFICES ASSUME LInv PROVE LeasesAreHonoured
      OBVIOUS
    <2>1. TypeOK
      BY DEF LInv, IInv, EngineOK, KeysOK, TTLOK, ScanOK, TypeOK
    <2>2. PersistenceTypeOK
      BY <2>1, CrashesAssumption DEF LInv, AtRest, PersistenceTypeOK
    <2>3. LockTypeOK
      BY <2>2 DEF LInv, LockTypeOK, ClaimsOK
    <2>4. QED
      BY <2>3, ClaimsHold DEF LeasesAreHonoured, Claims, Holder
  <1>2. NeverFull /\ AlwaysFound
    OBVIOUS
  <1>3. LInv /\ [LockCalls \/ Traffic]_lockvars => LInv'
    BY <1>2, LStep
  <1>4. QED
    BY LInit, <1>1, <1>3, PTL DEF LockSpec

-----------------------------------------------------------------------------
(* The bytes of a connection.                                              *)

Token == {<<"count", cmd>> : cmd \in Commands} \cup {<<"word">>, <<"inline">>}

\* What is to be read of q from the m-th command on.
Stream(q, m) == FlattenSeq([i \in 1..(Len(q) - m) |-> Bytes(q[m + i])])

LEMMA BytesType ==
    ASSUME NEW cmd \in Commands
    PROVE  /\ Words(cmd) \in Nat \ {0}
           /\ Bytes(cmd) \in Seq(Token)
           /\ cmd.name = "inline" => Bytes(cmd)[1] = <<"inline">>
           /\ cmd.name # "inline" => /\ Len(Bytes(cmd)) = Words(cmd) + 1
                                     /\ Bytes(cmd)[1] = <<"count", cmd>>
           /\ Len(Bytes(cmd)) \in Nat \ {0}
  <1>1. Len(cmd.args) \in Nat
    <2>1. Default \in Namespaces
      BY DEF Namespaces
    <2>2. cmd.args \in Seq(Range(cmd.args))
      BY <2>1, CommandsAssumption
    <2>3. QED
      BY <2>2
  <1>2. Words(cmd) \in Nat \ {0}
    BY <1>1 DEF Words
  <1>3. /\ << <<"inline">> >> \in Seq(Token) /\ Len(<< <<"inline">> >>) = 1
        /\ << <<"inline">> >>[1] = <<"inline">>
    BY DEF Token
  <1> DEFINE head == << <<"count", cmd>> >>
             rest == [i \in 1..Words(cmd) |-> <<"word">>]
  <1>4. head \in Seq(Token) /\ Len(head) = 1 /\ head[1] = <<"count", cmd>>
    BY DEF Token
  <1>5. rest \in Seq(Token) /\ Len(rest) = Words(cmd)
    BY <1>2 DEF Token
  <1> HIDE DEF head, rest
  <1>6. /\ head \o rest \in Seq(Token) /\ Len(head \o rest) = Words(cmd) + 1
        /\ (head \o rest)[1] = <<"count", cmd>>
    BY <1>2, <1>4, <1>5, ConcatProperties, SMTT(30)
  <1>7. Bytes(cmd) = IF cmd.name = "inline" THEN << <<"inline">> >> ELSE head \o rest
    BY DEF Bytes, head, rest
  <1>8. CASE cmd.name = "inline"
    BY <1>2, <1>3, <1>7, <1>8
  <1>9. CASE cmd.name # "inline"
    BY <1>2, <1>6, <1>7, <1>9
  <1>10. QED
    BY <1>8, <1>9

LEMMA StreamParts ==
    ASSUME NEW q \in Seq(Commands), NEW m \in 0..Len(q)
    PROVE  /\ [i \in 1..(Len(q) - m) |-> Bytes(q[m + i])] \in Seq(Seq(Token))
           /\ Len([i \in 1..(Len(q) - m) |-> Bytes(q[m + i])]) = Len(q) - m
  <1>1. Len(q) - m \in Nat
    OBVIOUS
  <1>2. \A i \in 1..(Len(q) - m) : q[m + i] \in Commands
    OBVIOUS
  <1>3. \A i \in 1..(Len(q) - m) : Bytes(q[m + i]) \in Seq(Token)
    BY <1>2, BytesType
  <1>4. QED
    BY <1>1, <1>3

LEMMA StreamType ==
    ASSUME NEW q \in Seq(Commands), NEW m \in 0..Len(q)
    PROVE  Stream(q, m) \in Seq(Token)
  BY StreamParts, FlattenType DEF Stream

LEMMA StreamOfNone ==
    ASSUME NEW q \in Seq(Commands)
    PROVE  Stream(q, Len(q)) = << >>
  <1>1. Len(q) \in Nat
    OBVIOUS
  <1>2. [i \in 1..(Len(q) - Len(q)) |-> Bytes(q[Len(q) + i])] = << >>
    BY <1>1
  <1>3. QED
    BY <1>2, FlattenOfEmpty DEF Stream

LEMMA StreamOfFirst ==
    ASSUME NEW q \in Seq(Commands), NEW m \in 0..(Len(q) - 1)
    PROVE  Stream(q, m) = Bytes(q[m + 1]) \o Stream(q, m + 1)
  <1> DEFINE s == [i \in 1..(Len(q) - (m + 1)) |-> Bytes(q[(m + 1) + i])]
             t == [i \in 1..(Len(q) - m) |-> Bytes(q[m + i])]
             n == Len(q) - (m + 1)
  <1>1. Len(q) \in Nat /\ n \in Nat /\ m \in 0..Len(q) /\ m + 1 \in 0..Len(q)
    OBVIOUS
  <1>2. q[m + 1] \in Commands
    OBVIOUS
  <1>3. s \in Seq(Seq(Token)) /\ t \in Seq(Seq(Token)) /\ Len(s) = n /\ Len(t) = Len(q) - m
    BY <1>1, StreamParts
  <1>4. Len(t) = Len(s) + 1
    BY <1>1, <1>3
  <1>5. t[1] = Bytes(q[m + 1])
    BY <1>1
  <1>6. \A i \in 1..Len(s) : t[i + 1] = s[i]
    <2>1. ASSUME NEW i \in 1..n PROVE t[i + 1] = s[i]
      <3>1. i + 1 \in 1..(Len(q) - m) /\ m + (i + 1) = (m + 1) + i
        BY <1>1
      <3>2. QED
        BY <3>1
    <2>2. QED
      BY <1>3, <2>1
  <1> HIDE DEF s, t
  <1>7. Bytes(q[m + 1]) \in Seq(Token)
    BY <1>2, BytesType
  <1>8. FlattenSeq(t) = Bytes(q[m + 1]) \o FlattenSeq(s)
    BY <1>3, <1>4, <1>5, <1>6, <1>7, FlattenOfCons
  <1>9. QED
    BY <1>8 DEF s, t, Stream

LEMMA StreamOfAppend ==
    ASSUME NEW q \in Seq(Commands), NEW cmd \in Commands, NEW m \in 0..Len(q)
    PROVE  Stream(Append(q, cmd), m) = Stream(q, m) \o Bytes(cmd)
  <1> DEFINE s == [i \in 1..(Len(q) - m) |-> Bytes(q[m + i])]
             p == Append(q, cmd)
             t == [i \in 1..(Len(p) - m) |-> Bytes(p[m + i])]
             n == Len(q) - m
  <1>1. /\ p \in Seq(Commands) /\ Len(p) = Len(q) + 1
        /\ \A i \in 1..Len(q) : p[i] = q[i]
        /\ p[Len(q) + 1] = cmd
    BY AppendProperties
  <1> HIDE DEF p
  <1>2. Len(q) \in Nat /\ n \in Nat /\ m \in 0..Len(p) /\ Len(p) - m = n + 1
    BY <1>1
  <1>3. s \in Seq(Seq(Token)) /\ t \in Seq(Seq(Token)) /\ Len(s) = n /\ Len(t) = n + 1
    BY <1>1, <1>2, StreamParts
  <1>4. Bytes(cmd) \in Seq(Token)
    BY BytesType
  <1>5. t = Append(s, Bytes(cmd))
    <2>1. \A i \in 1..n : t[i] = s[i]
      <3>1. \A i \in 1..n : m + i \in 1..Len(q) /\ i \in 1..(Len(p) - m)
        BY <1>2
      <3>2. QED
        BY <1>1, <3>1
    <2>2. t[n + 1] = Bytes(cmd)
      <3>1. n + 1 \in 1..(Len(p) - m) /\ m + (n + 1) = Len(q) + 1
        BY <1>2
      <3>2. QED
        BY <1>1, <3>1
    <2> HIDE DEF s, t
    <2>3. /\ Append(s, Bytes(cmd)) \in Seq(Seq(Token)) /\ Len(Append(s, Bytes(cmd))) = n + 1
          /\ \A i \in 1..n : Append(s, Bytes(cmd))[i] = s[i]
          /\ Append(s, Bytes(cmd))[n + 1] = Bytes(cmd)
      BY <1>3, <1>4, AppendProperties
    <2>4. \A i \in 1..(n + 1) : t[i] = Append(s, Bytes(cmd))[i]
      BY <1>2, <2>1, <2>2, <2>3, SMTT(30)
    <2>5. QED
      BY <1>3, <2>3, <2>4, SeqEqual
  <1> HIDE DEF s, t
  <1>6. FlattenSeq(t) = FlattenSeq(s) \o Bytes(cmd)
    BY <1>3, <1>4, <1>5, FlattenOfAppend
  <1>7. QED
    BY <1>6 DEF s, t, p, Stream

-----------------------------------------------------------------------------
(* The parser.                                                             *)

\* What the parser makes of x: commands and a rest that is no command, such
\* that if x begins a stream, the commands are the next ones of the stream.
Parsed(r, x) ==
    /\ r.commands \in Seq(Commands)
    /\ r.rest \in Seq(Token)
    /\ ~IsWhole(r.rest)
    /\ \A q \in Seq(Commands), w \in Seq(Token) : \A m \in 0..Len(q) :
          Stream(q, m) = x \o w =>
              /\ m + Len(r.commands) <= Len(q)
              /\ \A j \in 1..Len(r.commands) : q[m + j] = r.commands[j]
              /\ Stream(q, m + Len(r.commands)) = r.rest \o w

LEMMA ParsedNone ==
    ASSUME NEW x \in Seq(Token), ~IsWhole(x)
    PROVE  Parsed([commands |-> << >>, rest |-> x], x)
  <1>1. << >> \in Seq(Commands) /\ Len(<< >>) = 0
    OBVIOUS
  <1>2. ASSUME NEW q \in Seq(Commands), NEW m \in 0..Len(q) PROVE m + 0 = m /\ m <= Len(q)
    OBVIOUS
  <1>3. QED
    BY <1>1, <1>2 DEF Parsed

\* A command that is whole is a command with all its words.
LEMMA WholeCommand ==
    ASSUME NEW x \in Seq(Token), IsWhole(x)
    PROVE  /\ x[1][2] \in Commands
           /\ x[1] = <<"count", x[1][2]>>
           /\ Words(x[1][2]) \in Nat \ {0}
           /\ Words(x[1][2]) + 1 \in 1..Len(x)
  <1>1. Len(x) \in Nat \ {0} /\ x[1] \in Token
    BY DEF IsWhole
  <1>2. PICK cmd \in Commands : x[1] = <<"count", cmd>>
    BY <1>1 DEF IsWhole, Token
  <1>3. x[1][2] = cmd
    BY <1>2
  <1>4. Words(cmd) \in Nat \ {0}
    BY BytesType
  <1>5. QED
    BY <1>1, <1>2, <1>3, <1>4 DEF IsWhole

\* What follows equal beginnings is equal.
LEMMA AfterTheFirst ==
    ASSUME NEW T, NEW a \in Seq(T), NEW b \in Seq(T), NEW x \in Seq(T), NEW w \in Seq(T),
           a \o b = x \o w, Len(a) <= Len(x)
    PROVE  b = SubSeq(x, Len(a) + 1, Len(x)) \o w
  <1> DEFINE y == SubSeq(x, Len(a) + 1, Len(x))
  <1>1. Len(a) \in Nat /\ Len(b) \in Nat /\ Len(x) \in Nat /\ Len(w) \in Nat
    OBVIOUS
  <1>2. /\ y \in Seq(T)
        /\ Len(y) = Len(x) - Len(a)
        /\ \A i \in 1..Len(y) : y[i] = x[Len(a) + i]
    <2>1. \A i \in (Len(a) + 1)..Len(x) : x[i] \in T
      BY <1>1
    <2>2. /\ y \in Seq(T)
          /\ Len(y) = IF Len(a) + 1 <= Len(x) THEN Len(x) - (Len(a) + 1) + 1 ELSE 0
          /\ \A i \in 1..(Len(x) - (Len(a) + 1) + 1) : y[i] = x[(Len(a) + 1) + i - 1]
      BY <1>1, <2>1, SubSeqProperties
    <2> HIDE DEF y
    <2>3. Len(y) = Len(x) - Len(a)
      BY <1>1, <2>2
    <2>4. ASSUME NEW i \in 1..Len(y) PROVE y[i] = x[Len(a) + i]
      <3>1. i \in 1..(Len(x) - (Len(a) + 1) + 1) /\ (Len(a) + 1) + i - 1 = Len(a) + i
        BY <1>1, <2>3
      <3>2. QED
        BY <2>2, <3>1
    <2>5. QED
      BY <2>2, <2>3, <2>4
  <1> HIDE DEF y
  <1>3. /\ Len(a \o b) = Len(a) + Len(b)
        /\ \A i \in 1..(Len(a) + Len(b)) : (a \o b)[i] = IF i <= Len(a) THEN a[i] ELSE b[i - Len(a)]
        /\ Len(x \o w) = Len(x) + Len(w)
        /\ \A i \in 1..(Len(x) + Len(w)) : (x \o w)[i] = IF i <= Len(x) THEN x[i] ELSE w[i - Len(x)]
    BY ConcatProperties
  <1>4. /\ y \o w \in Seq(T)
        /\ Len(y \o w) = Len(y) + Len(w)
        /\ \A i \in 1..(Len(y) + Len(w)) : (y \o w)[i] = IF i <= Len(y) THEN y[i] ELSE w[i - Len(y)]
    BY <1>2, ConcatProperties
  <1>5. Len(b) = Len(y) + Len(w)
    BY <1>1, <1>2, <1>3
  <1>6. ASSUME NEW i \in 1..Len(b) PROVE b[i] = (y \o w)[i]
    <2>1. /\ Len(a) + i \in 1..(Len(a) + Len(b)) /\ ~(Len(a) + i <= Len(a))
          /\ (Len(a) + i) - Len(a) = i
      BY <1>1
    <2>2. b[i] = (x \o w)[Len(a) + i]
      BY <1>3, <2>1
    <2>3. CASE i <= Len(y)
      <3>1. Len(a) + i <= Len(x) /\ Len(a) + i \in 1..(Len(x) + Len(w))
        BY <1>1, <1>2, <2>3
      <3>2. (x \o w)[Len(a) + i] = x[Len(a) + i] /\ i \in 1..Len(y)
        BY <1>1, <1>2, <1>3, <2>3, <3>1
      <3>3. QED
        BY <1>2, <1>4, <1>5, <2>2, <2>3, <3>2
    <2>4. CASE ~(i <= Len(y))
      <3>1. /\ ~(Len(a) + i <= Len(x)) /\ Len(a) + i \in 1..(Len(x) + Len(w))
            /\ (Len(a) + i) - Len(x) = i - Len(y)
        BY <1>1, <1>2, <1>5, <2>4
      <3>2. (x \o w)[Len(a) + i] = w[i - Len(y)]
        BY <1>3, <3>1
      <3>3. QED
        BY <1>4, <1>5, <2>2, <2>4, <3>2
    <2>5. QED
      BY <2>3, <2>4
  <1>7. QED
    BY <1>4, <1>5, <1>6, SeqEqual DEF y

LEMMA ParsedFirst ==
    ASSUME NEW x \in Seq(Token), IsWhole(x),
           NEW t, Parsed(t, SubSeq(x, Words(x[1][2]) + 2, Len(x)))
    PROVE  Parsed([commands |-> << x[1][2] >> \o t.commands, rest |-> t.rest], x)
  <1> DEFINE first == x[1][2]
             y == SubSeq(x, Words(first) + 2, Len(x))
             commands == << first >> \o t.commands
             n == Len(t.commands)
  <1>1. /\ first \in Commands /\ x[1] = <<"count", first>>
        /\ Words(first) \in Nat \ {0} /\ Words(first) + 1 \in 1..Len(x)
    BY WholeCommand
  <1>2. /\ t.commands \in Seq(Commands) /\ t.rest \in Seq(Token) /\ ~IsWhole(t.rest)
        /\ \A q \in Seq(Commands), w \in Seq(Token) : \A m \in 0..Len(q) :
              Stream(q, m) = y \o w =>
                  /\ m + n <= Len(q)
                  /\ \A j \in 1..n : q[m + j] = t.commands[j]
                  /\ Stream(q, m + n) = t.rest \o w
    BY DEF Parsed
  <1> HIDE DEF first
  <1>3. /\ commands \in Seq(Commands) /\ Len(commands) = n + 1 /\ n \in Nat
        /\ commands[1] = first
        /\ \A j \in 1..n : commands[j + 1] = t.commands[j]
    <2>1. << first >> \in Seq(Commands) /\ Len(<< first >>) = 1 /\ << first >>[1] = first
      BY <1>1
    <2>2. n \in Nat
      BY <1>2
    <2>3. /\ commands \in Seq(Commands) /\ Len(commands) = 1 + n
          /\ \A j \in 1..(1 + n) : commands[j] =
                 IF j <= 1 THEN << first >>[j] ELSE t.commands[j - 1]
      BY <1>2, <2>1, ConcatProperties
    <2> HIDE DEF commands, n
    <2>4. \A j \in 1..n : j + 1 \in 1..(1 + n) /\ ~(j + 1 <= 1) /\ (j + 1) - 1 = j
      BY <2>2
    <2>5. QED
      BY <2>1, <2>2, <2>3, <2>4
  <1> HIDE DEF commands, n, y
  <1>4. ASSUME NEW q \in Seq(Commands), NEW w \in Seq(Token), NEW m \in 0..Len(q),
               Stream(q, m) = x \o w
        PROVE  /\ m + (n + 1) <= Len(q)
               /\ \A j \in 1..(n + 1) : q[m + j] = commands[j]
               /\ Stream(q, m + (n + 1)) = t.rest \o w
    <2>1. Len(x) \in Nat \ {0} /\ Len(q) \in Nat
      BY <1>1
    <2>2. /\ Len(x \o w) \in Nat \ {0} /\ (x \o w)[1] = x[1]
      <3>1. Len(w) \in Nat
        OBVIOUS
      <3>2. /\ Len(x \o w) = Len(x) + Len(w)
            /\ \A i \in 1..(Len(x) + Len(w)) :
                  (x \o w)[i] = IF i <= Len(x) THEN x[i] ELSE w[i - Len(x)]
        BY ConcatProperties
      <3>3. 1 \in 1..(Len(x) + Len(w)) /\ 1 <= Len(x)
        BY <2>1, <3>1
      <3>4. QED
        BY <2>1, <3>1, <3>2, <3>3
    <2>3. m \in 0..(Len(q) - 1) /\ m + 1 \in 0..Len(q) /\ q[m + 1] \in Commands
      <3>1. m # Len(q)
        BY <1>4, <2>2, StreamOfNone
      <3>2. QED
        BY <2>1, <3>1
    <2> DEFINE a == Bytes(q[m + 1])
    <2>4. Stream(q, m) = a \o Stream(q, m + 1) /\ Stream(q, m + 1) \in Seq(Token)
      BY <2>3, StreamOfFirst, StreamType
    <2>5. a \in Seq(Token) /\ Len(a) \in Nat \ {0}
      BY <2>3, BytesType
    <2>6. a[1] = x[1]
      <3>1. (a \o Stream(q, m + 1))[1] = a[1]
        <4> HIDE DEF a
        <4>1. Len(Stream(q, m + 1)) \in Nat
          BY <2>4
        <4>2. \A i \in 1..(Len(a) + Len(Stream(q, m + 1))) :
                 (a \o Stream(q, m + 1))[i] =
                     IF i <= Len(a) THEN a[i] ELSE Stream(q, m + 1)[i - Len(a)]
          BY <2>4, <2>5, ConcatProperties
        <4>3. 1 \in 1..(Len(a) + Len(Stream(q, m + 1))) /\ 1 <= Len(a)
          BY <2>5, <4>1
        <4>4. QED
          BY <4>2, <4>3
      <3>2. QED
        BY <1>4, <2>2, <2>4, <3>1
    <2>7. q[m + 1] = first /\ Len(a) = Words(first) + 1
      <3>1. q[m + 1].name # "inline"
        <4>1. a[1][1] = "count"
          BY <1>1, <2>6
        <4>2. q[m + 1].name = "inline" => a[1] = <<"inline">>
          BY <2>3, BytesType
        <4>3. <<"inline">>[1] # "count"
          OBVIOUS
        <4> HIDE DEF a
        <4>4. QED
          BY <4>1, <4>2, <4>3
      <3>2. a[1] = <<"count", q[m + 1]>> /\ Len(a) = Words(q[m + 1]) + 1
        BY <2>3, <3>1, BytesType
      <3>3. QED
        BY <1>1, <2>6, <3>2
    <2> HIDE DEF a
    <2>8. Stream(q, m + 1) = y \o w
      <3>1. Len(a) <= Len(x) /\ Len(a) + 1 = Words(first) + 2
        BY <1>1, <2>1, <2>7
      <3>2. a \o Stream(q, m + 1) = x \o w
        BY <1>4, <2>4
      <3>3. Stream(q, m + 1) = SubSeq(x, Len(a) + 1, Len(x)) \o w
        <4>1. \A c, d \in Seq(Token) : c \o d = x \o w /\ Len(c) <= Len(x) =>
                 d = SubSeq(x, Len(c) + 1, Len(x)) \o w
          BY AfterTheFirst, ZenonT(30)
        <4>2. QED
          BY <2>4, <2>5, <3>1, <3>2, <4>1
      <3>4. QED
        BY <3>1, <3>3 DEF y
    <2>9. /\ (m + 1) + n <= Len(q)
          /\ \A j \in 1..n : q[(m + 1) + j] = t.commands[j]
          /\ Stream(q, (m + 1) + n) = t.rest \o w
      BY <1>2, <2>3, <2>8
    <2>10. (m + 1) + n = m + (n + 1)
      BY <1>3, <2>3
    <2>11. ASSUME NEW j \in 1..(n + 1) PROVE q[m + j] = commands[j]
      <3>1. CASE j = 1
        BY <1>3, <2>7, <3>1
      <3>2. CASE j # 1
        <4> DEFINE i == j - 1
        <4>1. i \in 1..n /\ j = i + 1 /\ (m + 1) + i = m + j
          BY <1>3, <2>3, <3>2
        <4> HIDE DEF i
        <4>2. QED
          BY <1>3, <2>9, <4>1
      <3>3. QED
        BY <3>1, <3>2
    <2>12. QED
      BY <2>9, <2>10, <2>11
  <1> DEFINE r == [commands |-> commands, rest |-> t.rest]
  <1>5. r.commands = commands /\ r.rest = t.rest
    OBVIOUS
  <1> HIDE DEF r
  <1>6. Parsed(r, x)
    <2>1. Len(r.commands) = n + 1
      BY <1>3, <1>5
    <2>2. /\ r.commands \in Seq(Commands) /\ r.rest \in Seq(Token) /\ ~IsWhole(r.rest)
      BY <1>2, <1>3, <1>5
    <2>3. ASSUME NEW q \in Seq(Commands), NEW w \in Seq(Token), NEW m \in 0..Len(q),
                 Stream(q, m) = x \o w
          PROVE  /\ m + Len(r.commands) <= Len(q)
                 /\ \A j \in 1..Len(r.commands) : q[m + j] = r.commands[j]
                 /\ Stream(q, m + Len(r.commands)) = r.rest \o w
      <3>1. /\ m + (n + 1) <= Len(q)
            /\ \A j \in 1..(n + 1) : q[m + j] = commands[j]
            /\ Stream(q, m + (n + 1)) = t.rest \o w
        BY <1>4, <2>3
      <3>2. QED
        BY <3>1, <1>5, <2>1
    <2>4. QED
      BY <2>2, <2>3 DEF Parsed
  <1>7. QED
    BY <1>6 DEF r, commands, first

\* What is left of b from the offset i on, and one turn of the parser's loop.
Remainder(b, i) == SubSeq(b, i, Len(b))

Turn(from, b, i) ==
    IF ~IsWhole(Remainder(b, i)) THEN [commands |-> << >>, rest |-> Remainder(b, i)]
    ELSE [commands |-> << b[i][2] >> \o from[i + Words(b[i][2]) + 1].commands,
          rest |-> from[i + Words(b[i][2]) + 1].rest]

LEMMA RemainderOf ==
    ASSUME NEW b \in Seq(Token), NEW i \in 1..(Len(b) + 1)
    PROVE  /\ Remainder(b, i) \in Seq(Token)
           /\ Len(Remainder(b, i)) = Len(b) + 1 - i
           /\ \A j \in 1..(Len(b) + 1 - i) : Remainder(b, i)[j] = b[i + j - 1]
  <1>1. Len(b) \in Nat
    OBVIOUS
  <1>2. \A j \in i..Len(b) : b[j] \in Token
    BY <1>1
  <1>3. /\ Remainder(b, i) \in Seq(Token)
        /\ Len(Remainder(b, i)) = IF i <= Len(b) THEN Len(b) - i + 1 ELSE 0
        /\ \A j \in 1..(Len(b) - i + 1) : Remainder(b, i)[j] = b[i + j - 1]
    BY <1>1, <1>2, SubSeqProperties DEF Remainder
  <1>4. Len(b) - i + 1 = Len(b) + 1 - i
    BY <1>1
  <1>5. QED
    BY <1>1, <1>3, <1>4

LEMMA NothingRemains ==
    ASSUME NEW b \in Seq(Token)
    PROVE  ~IsWhole(Remainder(b, Len(b) + 1))
  <1>1. Len(b) + 1 \in Int /\ Len(b) \in Int /\ Len(b) < Len(b) + 1
    OBVIOUS
  <1>2. Remainder(b, Len(b) + 1) = << >>
    BY <1>1, SubSeqEmpty DEF Remainder
  <1>3. QED
    BY <1>2 DEF IsWhole

\* The next offset lies ahead, and within the buffer or at its end.
LEMMA NextOffset ==
    ASSUME NEW b \in Seq(Token), NEW i \in 1..(Len(b) + 1), IsWhole(Remainder(b, i))
    PROVE  /\ b[i] = Remainder(b, i)[1]
           /\ i + Words(b[i][2]) + 1 \in (i + 1)..(Len(b) + 1)
           /\ Remainder(b, i + Words(b[i][2]) + 1) =
                  SubSeq(Remainder(b, i), Words(b[i][2]) + 2, Len(Remainder(b, i)))
  <1> DEFINE x == Remainder(b, i)
             n == Words(x[1][2])
             y == SubSeq(x, n + 2, Len(x))
             z == Remainder(b, i + n + 1)
  <1>1. /\ x \in Seq(Token) /\ Len(x) = Len(b) + 1 - i /\ Len(b) \in Nat
        /\ \A j \in 1..(Len(b) + 1 - i) : x[j] = b[i + j - 1]
    BY RemainderOf
  <1>2. n \in Nat \ {0} /\ n + 1 \in 1..Len(x)
    BY <1>1, WholeCommand
  <1> HIDE DEF x
  <1>3. b[i] = x[1]
    <2>1. 1 \in 1..(Len(b) + 1 - i) /\ i + 1 - 1 = i
      BY <1>1, <1>2
    <2>2. QED
      BY <1>1, <2>1
  <1>4. i + n + 1 \in (i + 1)..(Len(b) + 1)
    BY <1>1, <1>2, SMTT(30)
  <1> HIDE DEF n
  <1>5. /\ z \in Seq(Token) /\ Len(z) = Len(b) + 1 - (i + n + 1)
        /\ \A j \in 1..(Len(b) + 1 - (i + n + 1)) : z[j] = b[(i + n + 1) + j - 1]
    <2>1. i + n + 1 \in 1..(Len(b) + 1)
      BY <1>4
    <2>2. QED
      BY <2>1, RemainderOf
  <1>6. /\ y \in Seq(Token)
        /\ Len(y) = Len(x) - (n + 2) + 1
        /\ \A j \in 1..(Len(x) - (n + 2) + 1) : y[j] = x[(n + 2) + j - 1]
    <2>1. \A j \in (n + 2)..Len(x) : x[j] \in Token
      BY <1>1, <1>2
    <2>2. /\ y \in Seq(Token)
          /\ Len(y) = IF n + 2 <= Len(x) THEN Len(x) - (n + 2) + 1 ELSE 0
          /\ \A j \in 1..(Len(x) - (n + 2) + 1) : y[j] = x[(n + 2) + j - 1]
      BY <1>1, <1>2, <2>1, SubSeqProperties
    <2> HIDE DEF y
    <2>3. QED
      BY <1>1, <1>2, <2>2
  <1> HIDE DEF y, z
  <1>7. Len(y) = Len(z)
    BY <1>1, <1>2, <1>5, <1>6
  <1>8. ASSUME NEW j \in 1..Len(z) PROVE y[j] = z[j]
    <2>1. /\ j \in 1..(Len(x) - (n + 2) + 1) /\ (n + 2) + j - 1 = n + 1 + j
          /\ j \in 1..(Len(b) + 1 - (i + n + 1)) /\ (i + n + 1) + j - 1 = i + n + j
      BY <1>1, <1>2, <1>5
    <2>2. n + 1 + j \in 1..(Len(b) + 1 - i) /\ i + (n + 1 + j) - 1 = i + n + j
      BY <1>1, <1>2, <2>1
    <2>3. y[j] = x[n + 1 + j] /\ z[j] = b[i + n + j]
      BY <1>5, <1>6, <2>1
    <2>4. x[n + 1 + j] = b[i + n + j]
      BY <1>1, <2>2
    <2>5. QED
      BY <2>3, <2>4
  <1>9. y = z
    BY <1>5, <1>6, <1>7, <1>8, SeqEqual
  <1>10. QED
    BY <1>3, <1>4, <1>9 DEF x, y, z, n

\* The loop ends: there is such a function, and it is the one of parse.
LEMMA LoopExists ==
    ASSUME NEW b \in Seq(Token)
    PROVE  \E from : from = [i \in 1..(Len(b) + 1) |-> Turn(from, b, i)]
  <1> DEFINE L == Len(b) + 1
             Q == {k \in 1..L : \E f : \A i \in k..L : f[i] = Turn(f, b, i)}
  <1>1. Len(b) \in Nat /\ L \in Nat /\ L \in 1..L
    OBVIOUS
  <1>2. L \in Q
    <2>1. ~IsWhole(Remainder(b, L))
      BY NothingRemains
    <2> DEFINE f == [i \in {L} |-> [commands |-> << >>, rest |-> Remainder(b, L)]]
    <2>2. f[L] = Turn(f, b, L)
      BY <2>1 DEF Turn
    <2> HIDE DEF L, f
    <2>3. \A i \in L..L : i = L
      BY <1>1
    <2>4. QED
      BY <1>1, <2>2, <2>3
  <1>3. PICK k \in Q : \A m \in Q : k <= m
    <2>1. Q \subseteq Nat
      BY <1>1
    <2> HIDE DEF Q
    <2>2. QED
      BY <1>2, <2>1, LeastNumber
  <1>4. PICK f : \A i \in k..L : f[i] = Turn(f, b, i)
    OBVIOUS
  <1>5. k = 1
    <2>1. SUFFICES ASSUME k # 1 PROVE FALSE
      OBVIOUS
    <2> DEFINE j == k - 1
               g == [i \in 1..L |-> IF i = j THEN Turn(f, b, j) ELSE f[i]]
    <2>2. j \in 1..L /\ k = j + 1 /\ k \in 1..L
      BY <1>1, <2>1
    <2> HIDE DEF j, L
    <2>3. ASSUME NEW i \in j..L PROVE Turn(g, b, i) = Turn(f, b, i) /\ i \in 1..L
      <3>1. i \in 1..L /\ i \in 1..(Len(b) + 1)
        BY <1>1, <2>2 DEF L
      <3>2. CASE IsWhole(Remainder(b, i))
        <4> DEFINE n == i + Words(b[i][2]) + 1
        <4>1. n \in (i + 1)..L
          BY <3>1, <3>2, NextOffset DEF L
        <4>2. n \in 1..L /\ n # j
          BY <1>1, <2>2, <3>1, <4>1
        <4>3. g[n] = f[n]
          BY <4>2
        <4> HIDE DEF g
        <4>4. QED
          BY <3>1, <4>3 DEF Turn
      <3>3. CASE ~IsWhole(Remainder(b, i))
        BY <3>1, <3>3 DEF Turn
      <3>4. QED
        BY <3>2, <3>3
    <2>4. ASSUME NEW i \in j..L PROVE g[i] = Turn(g, b, i)
      <3>1. g[i] = IF i = j THEN Turn(f, b, j) ELSE f[i]
        BY <2>3
      <3>2. i = j \/ i \in k..L
        BY <1>1, <2>2
      <3> HIDE DEF g
      <3>3. QED
        BY <1>4, <2>2, <2>3, <3>1, <3>2
    <2> HIDE DEF g
    <2>5. j \in Q
      BY <2>2, <2>4
    <2>6. ~(k <= j)
      BY <1>1, <2>2
    <2>7. QED
      BY <1>3, <2>5, <2>6
  <1> DEFINE from == [i \in 1..L |-> f[i]]
  <1>6. ASSUME NEW i \in 1..L PROVE from[i] = Turn(from, b, i)
    <2>1. from[i] = Turn(f, b, i)
      BY <1>4, <1>5
    <2>2. CASE IsWhole(Remainder(b, i))
      <3> DEFINE n == i + Words(b[i][2]) + 1
      <3>1. n \in (i + 1)..L
        BY <2>2, NextOffset
      <3>2. from[n] = f[n]
        BY <1>1, <3>1
      <3> HIDE DEF from
      <3>3. QED
        BY <2>1, <3>2 DEF Turn
    <2>3. CASE ~IsWhole(Remainder(b, i))
      BY <2>1, <2>3 DEF Turn
    <2>4. QED
      BY <2>2, <2>3
  <1>7. from = [i \in 1..L |-> Turn(from, b, i)]
    BY <1>6
  <1>8. QED
    BY <1>7

LEMMA ParseIsLoop ==
    ASSUME NEW b \in Seq(Token)
    PROVE  \E from : /\ parse(b) = from[1]
                     /\ \A i \in 1..(Len(b) + 1) : from[i] = Turn(from, b, i)
  <1> DEFINE Def(f) == [i \in 1..(Len(b) + 1) |->
                           IF ~IsWhole(SubSeq(b, i, Len(b)))
                           THEN [commands |-> << >>, rest |-> SubSeq(b, i, Len(b))]
                           ELSE [commands |-> << b[i][2] >> \o f[i + Words(b[i][2]) + 1].commands,
                                 rest |-> f[i + Words(b[i][2]) + 1].rest]]
             from == CHOOSE f : f = Def(f)
  <1>1. parse(b) = from[1]
    BY DEF parse
  <1>2. \A f : Def(f) = [i \in 1..(Len(b) + 1) |-> Turn(f, b, i)]
    BY DEF Turn, Remainder
  <1> HIDE DEF Def
  <1>3. \E f : f = Def(f)
    BY <1>2, LoopExists
  <1>4. from = Def(from)
    BY <1>3
  <1> HIDE DEF from
  <1>5. \A i \in 1..(Len(b) + 1) : from[i] = Turn(from, b, i)
    BY <1>2, <1>4
  <1>6. QED
    BY <1>1, <1>5

\* The parser takes from a stream the commands that are whole, in order.
LEMMA ParseReads ==
    ASSUME NEW b \in Seq(Token)
    PROVE  Parsed(parse(b), b)
  <1> DEFINE L == Len(b) + 1
  <1>1. PICK from : /\ parse(b) = from[1]
                    /\ \A i \in 1..L : from[i] = Turn(from, b, i)
    BY ParseIsLoop
  <1> DEFINE Q == {k \in 1..L : \A i \in k..L : Parsed(from[i], Remainder(b, i))}
  <1>2. Len(b) \in Nat /\ L \in Nat /\ L \in 1..L
    OBVIOUS
  <1>3. ASSUME NEW i \in 1..L, ~IsWhole(Remainder(b, i))
        PROVE  Parsed(from[i], Remainder(b, i))
    <2>1. from[i] = [commands |-> << >>, rest |-> Remainder(b, i)]
      BY <1>1, <1>3 DEF Turn
    <2>2. QED
      BY <1>3, <2>1, RemainderOf, ParsedNone
  <1>4. L \in Q
    <2>1. ~IsWhole(Remainder(b, L))
      BY NothingRemains
    <2> HIDE DEF L
    <2>2. \A i \in L..L : i = L
      BY <1>2
    <2>3. QED
      BY <1>2, <1>3, <2>1, <2>2
  <1>5. PICK k \in Q : \A m \in Q : k <= m
    <2>1. Q \subseteq Nat
      BY <1>2
    <2> HIDE DEF Q
    <2>2. QED
      BY <1>4, <2>1, LeastNumber
  <1>6. k = 1
    <2>1. SUFFICES ASSUME k # 1 PROVE FALSE
      OBVIOUS
    <2> DEFINE j == k - 1
    <2>2. j \in 1..L /\ k = j + 1 /\ k \in 1..L
      BY <1>2, <2>1
    <2> HIDE DEF j
    <2>3. ASSUME IsWhole(Remainder(b, j)) PROVE Parsed(from[j], Remainder(b, j))
      <3> DEFINE x == Remainder(b, j)
                 n == j + Words(b[j][2]) + 1
                 t == from[n]
      <3>1. /\ b[j] = x[1] /\ n \in (j + 1)..L /\ x \in Seq(Token)
            /\ Remainder(b, n) = SubSeq(x, Words(x[1][2]) + 2, Len(x))
        <4>1. /\ b[j] = Remainder(b, j)[1]
              /\ j + Words(b[j][2]) + 1 \in (j + 1)..(Len(b) + 1)
              /\ Remainder(b, j + Words(b[j][2]) + 1) =
                     SubSeq(Remainder(b, j), Words(b[j][2]) + 2, Len(Remainder(b, j)))
          BY <2>2, <2>3, NextOffset
        <4>2. Remainder(b, j) \in Seq(Token)
          BY <2>2, RemainderOf
        <4>3. QED
          BY <4>1, <4>2
      <3>2. Parsed(t, SubSeq(x, Words(x[1][2]) + 2, Len(x)))
        <4>1. n \in k..L
          BY <2>2, <3>1
        <4>2. Parsed(from[n], Remainder(b, n))
          BY <4>1
        <4>3. QED
          BY <3>1, <4>2
      <3>3. from[j] = [commands |-> << x[1][2] >> \o t.commands, rest |-> t.rest]
        BY <1>1, <2>2, <2>3, <3>1 DEF Turn
      <3>4. Parsed(from[j], x)
        <4> HIDE DEF x, t
        <4>1. IsWhole(x)
          BY <2>3 DEF x
        <4>2. QED
          BY <3>1, <3>2, <3>3, <4>1, ParsedFirst
      <3>5. QED
        BY <3>4
    <2>4. Parsed(from[j], Remainder(b, j))
      BY <1>3, <2>2, <2>3
    <2>5. j \in Q
      <3>1. \A i \in j..L : i = j \/ i \in k..L
        BY <1>2, <2>2
      <3>2. QED
        BY <2>2, <2>4, <3>1
    <2>6. ~(k <= j)
      BY <1>2, <2>2
    <2> HIDE DEF Q
    <2>7. QED
      BY <1>5, <2>5, <2>6
  <1>7. Parsed(from[1], Remainder(b, 1))
    BY <1>2, <1>6
  <1>8. Remainder(b, 1) = b
    BY SubSeqFull DEF Remainder
  <1>9. QED
    BY <1>1, <1>7, <1>8

-----------------------------------------------------------------------------
(* The invariant of the connections.                                       *)

Socket == [buffer : Seq(Token), pipeline : Seq(Commands),
           namespace : Namespaces, open : BOOLEAN]

SocketsOK ==
    /\ socket \in [Conns -> Socket]
    /\ wire \in [Conns -> Seq(Token)]
    /\ unanswered \in [Conns -> Seq(Commands)]
    /\ DOMAIN selected = Conns
    /\ \A c \in Conns : socket[c].namespace = Namespace(selected[c], Default)

\* The commands without a reply are those that are parsed, and then those of
\* the bytes that are buffered or on their way.
PipesOK ==
    \A c \in Conns :
        LET ahead == Len(socket[c].pipeline) IN
        /\ ahead <= Len(unanswered[c])
        /\ \A j \in 1..ahead : unanswered[c][j] = socket[c].pipeline[j]
        /\ Stream(unanswered[c], ahead) = socket[c].buffer \o wire[c]
        /\ ~IsWhole(socket[c].buffer)

\* A call that the service may be given.
ValidCall(call) ==
    /\ call.key \in Keys
    /\ call.op = "set" => call.value \in Payloads /\ call.time \in TTLs \cup {Undefined}
    /\ call.op = "raw" => call.value \in Values
    /\ call.op = "incr" => call.value \in Deltas
    /\ call.op = "touch" => call.time \in TTLs

\* A call of a handler of a namespace, for a name that is plain or not.
IsOf(call, ns) ==
    \E x \in DOMAIN FullKey : /\ x[1] = ns /\ call.key = FullKey[x]
                             /\ call.plain = (x[2] \in Plain)

\* The calls left to a handler are of the database of its connection.
CallsOK ==
    /\ running \in Seq(Range(running))
    /\ \A i \in 1..Len(running) :
          /\ ValidCall(running[i])
          /\ running[i].by \in Conns =>
                IsOf(running[i], socket[running[i].by].namespace)

\* Whoever does not hear the events has no mirror.
MirrorsOK ==
    /\ DOMAIN topics = Sockets /\ DOMAIN mirror = Sockets
    /\ \A s \in Sockets : IsOpen(s) /\ "cache-events" \notin topics[s] => mirror[s] = Null
    /\ evicted \cap Cached(cache) = {}
    /\ MirrorsFollowTheCache

RInv == IInv /\ SocketsOK /\ PipesOK /\ CallsOK /\ MirrorsOK

LEMMA NamespaceType ==
    ASSUME NEW cmd \in Commands
    PROVE  Namespace(cmd.db, Default) \in Namespaces /\ Default \in Namespaces
  BY DEF Namespaces

-----------------------------------------------------------------------------
(* The calls of the service.                                               *)

LEMMA CallsAreValid ==
    ASSUME NEW op, op # "raw", NEW ns, NEW args, NEW by, Asks(op, ns, args)
    PROVE  LET q == Calls(op, ns, args, by) IN
           /\ q \in Seq(Range(q))
           /\ \A i \in 1..Len(q) : ValidCall(q[i]) /\ q[i].by = by /\ IsOf(q[i], ns)
  <1> DEFINE q == Calls(op, ns, args, by)
             n == Len(args)
             name(i) == args[i].key
  <1>1. /\ args \in Seq(Range(args)) /\ n \in Nat /\ DOMAIN args = 1..n
        /\ \A i \in 1..n : args[i] \in Range(args)
    <2>1. args \in Seq(Range(args))
      BY DEF Asks
    <2>2. QED
      BY <2>1
  <1> HIDE DEF n
  <1>2. /\ q = [i \in 1..n |-> q[i]]
        /\ \A i \in 1..n : q[i] = [op |-> op, key |-> FullKey[<<ns, name(i)>>],
                                   value |-> args[i].value, time |-> args[i].time,
                                   by |-> by, plain |-> name(i) \in Plain]
    BY <1>1 DEF Calls
  <1>3. ASSUME NEW i \in 1..n
        PROVE  ValidCall(q[i]) /\ q[i].by = by /\ IsOf(q[i], ns)
    <2>1. /\ <<ns, name(i)>> \in DOMAIN FullKey
          /\ op = "set" => args[i].value \in Payloads /\ args[i].time \in TTLs \cup {Undefined}
          /\ op = "incr" => args[i].value \in Deltas
          /\ op = "touch" => args[i].time \in TTLs
      BY <1>1 DEF Asks
    <2>2. /\ q[i].op = op /\ q[i].key = FullKey[<<ns, name(i)>>] /\ q[i].by = by
          /\ q[i].value = args[i].value /\ q[i].time = args[i].time
      BY <1>2
    <2>7. q[i].plain = (name(i) \in Plain)
      <3>1. PICK b : b = (name(i) \in Plain)
        OBVIOUS
      <3>2. q[i] = [op |-> op, key |-> FullKey[<<ns, name(i)>>], value |-> args[i].value,
                    time |-> args[i].time, by |-> by, plain |-> b]
        BY <1>2, <3>1
      <3> HIDE DEF q
      <3>3. q[i].plain = b
        BY <3>2
      <3>4. QED
        BY <3>1, <3>3
    <2> HIDE DEF q, name
    <2>3. q[i].key \in Keys
      BY <2>1, <2>2, FullKeyAssumption
    <2>4. ValidCall(q[i])
      BY <2>1, <2>2, <2>3 DEF ValidCall
    <2>5. IsOf(q[i], ns)
      <3>1. PICK x : x = <<ns, name(i)>>
        OBVIOUS
      <3>2. x \in DOMAIN FullKey /\ x[1] = ns /\ x[2] = name(i)
        BY <2>1, <3>1
      <3>3. QED
        BY <2>2, <2>7, <3>1, <3>2 DEF IsOf
    <2>6. QED
      BY <2>2, <2>4, <2>5
  <1> HIDE DEF q, name
  <1>4. q \in Seq(Range(q)) /\ Len(q) = n
    <2>1. DOMAIN q = 1..n /\ Range(q) = {q[i] : i \in 1..n}
      BY <1>2 DEF Range
    <2>2. QED
      BY <1>1, <1>2, <2>1
  <1>5. QED
    BY <1>3, <1>4 DEF q

\* An upload restores values under keys, and no connection asks for them.
LEMMA RestoresAreValid ==
    ASSUME NEW upload \in Uploads
    PROVE  LET q == Restores(upload) IN
           /\ q \in Seq(Range(q))
           /\ \A i \in 1..Len(q) : ValidCall(q[i]) /\ q[i].by = Null
  <1> DEFINE q == Restores(upload)
             n == Len(upload)
  <1>1. /\ n \in Nat /\ DOMAIN upload = 1..n
        /\ \A i \in 1..n : upload[i].key \in Keys /\ upload[i].value \in Values
    <2>1. upload \in Seq([key : Keys, value : Values])
      BY UploadsAssumption
    <2>2. n \in Nat /\ DOMAIN upload = 1..n
      BY <2>1
    <2>3. \A i \in 1..n : upload[i] \in [key : Keys, value : Values]
      BY <2>1, ElementOfSeq
    <2>4. QED
      BY <2>2, <2>3
  <1> HIDE DEF n
  <1>2. /\ q = [i \in 1..n |-> q[i]]
        /\ \A i \in 1..n : q[i] = [op |-> "raw", key |-> upload[i].key,
                                   value |-> upload[i].value, time |-> Undefined,
                                   by |-> Null, plain |-> FALSE]
    BY <1>1 DEF Restores
  <1>3. \A i \in 1..n : ValidCall(q[i]) /\ q[i].by = Null
    BY <1>1, <1>2 DEF ValidCall
  <1> HIDE DEF q
  <1>4. q \in Seq(Range(q)) /\ Len(q) = n
    <2>1. DOMAIN q = 1..n /\ Range(q) = {q[i] : i \in 1..n}
      BY <1>2 DEF Range
    <2>2. QED
      BY <1>1, <1>2, <2>1
  <1>5. QED
    BY <1>3, <1>4 DEF q

\* What remains when the first of them is done.
LEMMA OneCallDone ==
    ASSUME NEW q, q \in Seq(Range(q)), q # << >>
    PROVE  /\ Len(q) \in Nat \ {0}
           /\ Head(q) = q[1]
           /\ Tail(q) \in Seq(Range(Tail(q)))
           /\ Len(Tail(q)) = Len(q) - 1
           /\ \A i \in 1..Len(Tail(q)) : i + 1 \in 1..Len(q) /\ Tail(q)[i] = q[i + 1]
  <1>1. /\ Tail(q) \in Seq(Range(q)) /\ Len(Tail(q)) = Len(q) - 1
        /\ \A i \in 1..Len(Tail(q)) : Tail(q)[i] = q[i + 1]
    BY HeadTailProperties
  <1>2. Tail(q) \in Seq(Range(Tail(q)))
    BY <1>1, SeqOfRange
  <1>3. Len(q) \in Nat \ {0} /\ Head(q) = q[1]
    OBVIOUS
  <1>4. QED
    BY <1>1, <1>2, <1>3

LEMMA PerformSteps ==
    ASSUME NEW call, ValidCall(call), Perform(call)
    PROVE  [Next]_vars
  <1>1. call.op = "set" /\ Set(call.key, call.value, call.time) => Next
    BY DEF ValidCall, Next
  <1>2. Get(call.key) \/ DeleteKey(call.key) => Next
    BY DEF ValidCall, Next
  <1>3. call.op = "incr" /\ Incr(call.key, call.value) => Next
    BY DEF ValidCall, Next
  <1>4. call.op = "touch" /\ Touch(call.key, call.time) => Next
    BY DEF ValidCall, Next
  <1>5. ListKeys \/ Clear => Next
    BY DEF Next
  <1>6. call.op = "raw" /\ SetRaw(call.key, call.value) => Next
    BY DEF ValidCall, Next
  <1>7. QED
    BY <1>1, <1>2, <1>3, <1>4, <1>5, <1>6 DEF Perform

\* What a call does to the keys that are cached, and to the entries of others.
LEMMA PerformEffect ==
    ASSUME IInv, NEW call, ValidCall(call), Perform(call)
    PROVE  /\ call.op \in {"set", "raw", "get", "delete", "incr", "touch", "keys", "clear"}
           /\ call.op \in {"set", "raw"} => /\ call.key \in Cached(cache')
                                            /\ Cached(cache') \subseteq Cached(cache) \cup {call.key}
           /\ call.op = "delete" => Cached(cache') = Cached(cache) \ {call.key}
           /\ call.op = "clear" => Cached(cache') = {}
           /\ call.op \notin {"set", "raw", "delete", "clear"} => Cached(cache') = Cached(cache)
           /\ \A x \in Cached(cache) \cap Cached(cache') :
                 x # call.key => cache'.entries[x] = cache.entries[x]
  <1> DEFINE k == call.key
  <1>0. EngineOK(cache) /\ k \in Keys
    BY DEF IInv, ValidCall
  <1>1. ASSUME NEW v \in Values, call.op \in {"set", "raw"}, cache' = Put(cache, k, v)
        PROVE  /\ k \in Cached(cache') /\ Cached(cache') \subseteq Cached(cache) \cup {k}
               /\ \A x \in Cached(cache) \cap Cached(cache') :
                     x # k => cache'.entries[x] = cache.entries[x]
    <2>1. cache' = Put(cache, k, v)
      BY <1>1
    <2>2. v \in Values
      BY <1>1
    <2> HIDE DEF k
    <2>3. CASE k \in Cached(cache)
      BY <1>0, <1>1, <2>1, <2>2, <2>3, OverwriteKeeps DEF Put, EngineOK, k
    <2>4. CASE k \notin Cached(cache)
      <3>1. /\ Cached(Insert(cache, k, v)) =
                   (IF Full(cache) THEN Cached(cache) \ {Victim(cache)} ELSE Cached(cache)) \cup {k}
            /\ \A x \in Cached(Insert(cache, k, v)) \ {k} :
                  Insert(cache, k, v).entries[x] = cache.entries[x]
        BY <1>0, <2>2, <2>4, InsertAdds DEF EngineOK
      <3>2. cache' = Insert(cache, k, v)
        BY <2>1, <2>4 DEF Put
      <3>3. QED
        BY <1>1, <3>1, <3>2 DEF k
    <2>5. QED
      BY <2>3, <2>4
  <1>2. CASE call.op = "get" /\ Get(k)
    <2>1. cache' = Read(cache, k) /\ k \in Cached(cache)
      BY <1>2 DEF Get
    <2>2. QED
      BY <1>0, <1>2, <2>1, ReadKeeps DEF EngineOK
  <1>3. CASE call.op = "delete" /\ DeleteKey(k)
    <2>1. cache' = Delete(cache, k)
      BY <1>3 DEF DeleteKey, DeleteFrom
    <2>2. CASE k \in Cached(cache)
      BY <1>0, <1>3, <2>1, <2>2, UnlinkRemoves DEF EngineOK, Delete
    <2>3. CASE k \notin Cached(cache)
      BY <1>3, <2>1, <2>3 DEF Delete
    <2>4. QED
      BY <2>2, <2>3
  <1>4. CASE call.op = "incr" /\ Incr(k, call.value)
    <2> DEFINE v == cache.entries[k].value + call.value
    <2>1. cache' = Overwrite(cache, k, v) /\ k \in Cached(cache) /\ v \in Values
      BY <1>4, NumbersAssumption DEF Incr, IsNumber
    <2> HIDE DEF v
    <2>2. QED
      BY <1>0, <1>4, <2>1, OverwriteKeeps DEF EngineOK
  <1>5. CASE call.op \in {"touch", "keys", "get", "incr"} /\ UNCHANGED cache
    BY <1>5
  <1>6. CASE call.op = "clear" /\ Clear
    <2>1. Cached(cache') = {}
      BY <1>6 DEF Clear, Cached, EmptyCache
    <2>2. QED
      BY <1>6, <2>1
  <1>7. Perform(call) => \/ call.op = "touch" /\ UNCHANGED cache
                         \/ call.op = "keys" /\ UNCHANGED cache
                         \/ call.op \in {"get", "incr", "touch"} /\ UNCHANGED cache
                         \/ call.op = "set" /\ Set(k, call.value, call.time)
                         \/ call.op = "raw" /\ SetRaw(k, call.value)
                         \/ call.op = "get" /\ Get(k)
                         \/ call.op = "delete" /\ DeleteKey(k)
                         \/ call.op = "incr" /\ Incr(k, call.value)
                         \/ call.op = "clear" /\ Clear
    BY DEF Perform, Touch, ListKeys, Fruitless, data, vars
  <1>8. CASE call.op = "set" /\ Set(k, call.value, call.time)
    <2>1. cache' = Put(cache, k, Encode(call.value)) /\ Encode(call.value) \in Values
      BY <1>8, EncodeType DEF Set, SetFrom, Store, ValidCall
    <2>2. QED
      BY <1>1, <1>8, <2>1
  <1>9. CASE call.op = "raw" /\ SetRaw(k, call.value)
    <2>1. cache' = Put(cache, k, call.value) /\ call.value \in Values
      BY <1>9 DEF SetRaw, Store, ValidCall
    <2>2. QED
      BY <1>1, <1>9, <2>1
  <1>10. QED
    BY <1>2, <1>3, <1>4, <1>5, <1>6, <1>7, <1>8, <1>9

-----------------------------------------------------------------------------

\* The call at the head is one that the service may be given.
LEMMA HeadIsValid ==
    ASSUME RInv, Busy
    PROVE  /\ ValidCall(Head(running))
           /\ Head(running).by \in Conns =>
                  IsOf(Head(running), socket[Head(running).by].namespace)
  <1>1. /\ running \in Seq(Range(running)) /\ running # << >>
        /\ \A i \in 1..Len(running) :
              /\ ValidCall(running[i])
              /\ running[i].by \in Conns =>
                    IsOf(running[i], socket[running[i].by].namespace)
    BY DEF RInv, CallsOK, Busy
  <1>2. 1 \in 1..Len(running) /\ Head(running) = running[1]
    BY <1>1, OneCallDone
  <1>3. QED
    BY <1>1, <1>2

\* Whatever a connection or a socket does, the service takes one of its steps.
LEMMA ServiceSteps ==
    ASSUME RInv, [RedisNext]_all
    PROVE  [Next]_vars
  <1>1. ASSUME Run PROVE [Next]_vars
    <2>1. Busy /\ Perform(Head(running))
      BY <1>1 DEF Run
    <2>2. QED
      BY <2>1, HeadIsValid, PerformSteps
  <1>2. ASSUME WebSocketsNext PROVE [Next]_vars
    <2>1. ASSUME NEW timer \in timers, Expires(timer) PROVE [Next]_vars
      BY <2>1 DEF Expires, Next
    <2>2. ASSUME NEW s \in Sockets, Open(s) \/ Close(s) \/ AnswerOnly(s) PROVE UNCHANGED vars
      BY <2>2 DEF Open, Close, AnswerOnly
    <2>3. ASSUME NEW s \in Sockets, NEW t \in Topics, Subscribe(s, t) \/ Unsubscribe(s, t)
          PROVE UNCHANGED vars
      BY <2>3 DEF Subscribe, Unsubscribe
    <2>4. ASSUME NEW s \in Sockets, NEW m \in Messages, Message(s, m) PROVE UNCHANGED vars
      BY <2>4 DEF Message
    <2>5. ASSUME Elapses PROVE [Next]_vars
      BY <2>5 DEF Elapses, Next
    <2>6. ASSUME NEW upload \in Uploads, Upload(upload) PROVE UNCHANGED vars
      BY <2>6 DEF Upload
    <2>7. QED
      BY <1>2, <2>1, <2>2, <2>3, <2>4, <2>5, <2>6 DEF WebSocketsNext
  <1>3. ASSUME NEW c \in Conns, NEW cmd \in Commands, Send(c, cmd) PROVE UNCHANGED vars
    BY <1>3 DEF Send
  <1>4. ASSUME NEW c \in Conns, NEW n \in 1..Len(wire[c]), Data(c, n) PROVE UNCHANGED vars
    BY <1>4 DEF Data
  <1>5. ASSUME NEW c \in Conns, Execute(c) PROVE UNCHANGED vars
    BY <1>5 DEF Execute
  <1>6. UNCHANGED all => UNCHANGED vars
    BY DEF all
  <1>7. QED
    BY <1>1, <1>2, <1>3, <1>4, <1>5, <1>6 DEF RedisNext

-----------------------------------------------------------------------------
(* What the clients have sent.                                             *)

\* The steps of the service and of the WebSockets leave the connections alone.
LEMMA ConnectionsKept ==
    ASSUME RInv, UNCHANGED rvars
    PROVE  SocketsOK' /\ PipesOK'
  BY DEF RInv, rvars, SocketsOK, PipesOK

LEMMA SendKeeps ==
    ASSUME RInv, NEW c \in Conns, NEW cmd \in Commands, Send(c, cmd)
    PROVE  SocketsOK' /\ PipesOK'
  <1>1. /\ wire' = [wire EXCEPT ![c] = wire[c] \o Bytes(cmd)]
        /\ unanswered' = [unanswered EXCEPT ![c] = Append(unanswered[c], cmd)]
        /\ UNCHANGED <<socket, selected>>
    BY DEF Send
  <1>2. SocketsOK /\ PipesOK
    BY DEF RInv
  <1>3. /\ Bytes(cmd) \in Seq(Token) /\ wire[c] \in Seq(Token)
        /\ unanswered[c] \in Seq(Commands) /\ socket[c] \in Socket
    BY <1>2, BytesType DEF SocketsOK
  <1>4. wire[c] \o Bytes(cmd) \in Seq(Token) /\ Append(unanswered[c], cmd) \in Seq(Commands)
    BY <1>3, ConcatProperties, AppendProperties
  <1>5. SocketsOK'
    BY <1>1, <1>2, <1>4 DEF SocketsOK
  <1>6. PipesOK'
    <2>1. ASSUME NEW d \in Conns
          PROVE  LET ahead == Len(socket[d].pipeline) IN
                 /\ ahead <= Len(unanswered'[d])
                 /\ \A j \in 1..ahead : unanswered'[d][j] = socket[d].pipeline[j]
                 /\ Stream(unanswered'[d], ahead) = socket[d].buffer \o wire'[d]
                 /\ ~IsWhole(socket[d].buffer)
      <3> DEFINE ahead == Len(socket[d].pipeline)
                 q == unanswered[d]
      <3>1. /\ ahead <= Len(q)
            /\ \A j \in 1..ahead : q[j] = socket[d].pipeline[j]
            /\ Stream(q, ahead) = socket[d].buffer \o wire[d]
            /\ ~IsWhole(socket[d].buffer)
        BY <1>2 DEF PipesOK
      <3>2. q \in Seq(Commands) /\ ahead \in Nat
        BY <1>2 DEF SocketsOK, Socket
      <3>3. CASE d # c
        BY <1>1, <1>2, <3>1, <3>3 DEF SocketsOK
      <3>4. CASE d = c
        <4>1. unanswered'[d] = Append(q, cmd) /\ wire'[d] = wire[d] \o Bytes(cmd)
          BY <1>1, <1>2, <3>4 DEF SocketsOK
        <4>2. socket[d].buffer \in Seq(Token) /\ wire[d] \in Seq(Token)
          BY <1>2 DEF SocketsOK, Socket
        <4> HIDE DEF q, ahead
        <4>3. /\ Len(Append(q, cmd)) = Len(q) + 1
              /\ \A j \in 1..Len(q) : Append(q, cmd)[j] = q[j]
          BY <3>2, AppendProperties
        <4>4. ahead \in 0..Len(q) /\ ahead <= Len(q) + 1 /\ \A j \in 1..ahead : j \in 1..Len(q)
          BY <3>1, <3>2
        <4>5. Stream(Append(q, cmd), ahead) = Stream(q, ahead) \o Bytes(cmd)
          BY <3>2, <4>4, StreamOfAppend
        <4>6. (socket[d].buffer \o wire[d]) \o Bytes(cmd) = socket[d].buffer \o (wire[d] \o Bytes(cmd))
          <5>1. \A x, y, z \in Seq(Token) : (x \o y) \o z = x \o (y \o z)
            BY ONLY ConcatAssociative
          <5>2. QED
            BY <1>3, <4>2, <5>1, ZenonT(30)
        <4>7. /\ ahead <= Len(Append(q, cmd))
              /\ \A j \in 1..ahead : Append(q, cmd)[j] = socket[d].pipeline[j]
              /\ Stream(Append(q, cmd), ahead) = socket[d].buffer \o (wire[d] \o Bytes(cmd))
          BY <3>1, <4>3, <4>4, <4>5, <4>6
        <4>8. QED
          BY <3>1, <4>1, <4>7 DEF ahead
      <3>5. QED
        BY <3>3, <3>4
    <2>2. QED
      BY <1>1, <2>1, ZenonT(30) DEF PipesOK
  <1>7. QED
    BY <1>5, <1>6

LEMMA SplitAt ==
    ASSUME NEW T, NEW s \in Seq(T), NEW n \in 1..Len(s)
    PROVE  /\ SubSeq(s, 1, n) \in Seq(T)
           /\ SubSeq(s, n + 1, Len(s)) \in Seq(T)
           /\ SubSeq(s, 1, n) \o SubSeq(s, n + 1, Len(s)) = s
  <1> DEFINE a == SubSeq(s, 1, n)
             b == SubSeq(s, n + 1, Len(s))
  <1>1. Len(s) \in Nat /\ n \in Nat \ {0} /\ n <= Len(s)
    OBVIOUS
  <1>2. /\ a \in Seq(T) /\ Len(a) = n
        /\ \A i \in 1..n : a[i] = s[i]
    <2>1. \A i \in 1..n : s[i] \in T
      BY <1>1
    <2>2. /\ a \in Seq(T)
          /\ Len(a) = IF 1 <= n THEN n - 1 + 1 ELSE 0
          /\ \A i \in 1..(n - 1 + 1) : a[i] = s[1 + i - 1]
      BY <1>1, <2>1, SubSeqProperties
    <2> HIDE DEF a
    <2>3. \A i \in 1..n : i \in 1..(n - 1 + 1) /\ 1 + i - 1 = i
      BY <1>1
    <2>4. QED
      BY <1>1, <2>2, <2>3
  <1>3. /\ b \in Seq(T) /\ Len(b) = Len(s) - n
        /\ \A i \in 1..(Len(s) - n) : b[i] = s[n + i]
    <2>1. \A i \in (n + 1)..Len(s) : s[i] \in T
      BY <1>1
    <2>2. /\ b \in Seq(T)
          /\ Len(b) = IF n + 1 <= Len(s) THEN Len(s) - (n + 1) + 1 ELSE 0
          /\ \A i \in 1..(Len(s) - (n + 1) + 1) : b[i] = s[(n + 1) + i - 1]
      BY <1>1, <2>1, SubSeqProperties
    <2> HIDE DEF b
    <2>3. \A i \in 1..(Len(s) - n) : i \in 1..(Len(s) - (n + 1) + 1) /\ (n + 1) + i - 1 = n + i
      BY <1>1
    <2>4. QED
      BY <1>1, <2>2, <2>3
  <1> HIDE DEF a, b
  <1>4. /\ a \o b \in Seq(T) /\ Len(a \o b) = Len(a) + Len(b)
        /\ \A i \in 1..(Len(a) + Len(b)) : (a \o b)[i] = IF i <= Len(a) THEN a[i] ELSE b[i - Len(a)]
    BY <1>2, <1>3, ConcatProperties
  <1>5. Len(a \o b) = Len(s)
    BY <1>1, <1>2, <1>3, <1>4
  <1>6. ASSUME NEW i \in 1..Len(s) PROVE (a \o b)[i] = s[i]
    <2>1. i \in 1..(Len(a) + Len(b))
      BY <1>1, <1>2, <1>3
    <2>2. CASE i <= n
      <3>1. i \in 1..n
        BY <1>1, <2>2
      <3>2. QED
        BY <1>2, <1>4, <2>1, <2>2, <3>1
    <2>3. CASE ~(i <= n)
      <3>1. i - n \in 1..(Len(s) - n) /\ n + (i - n) = i
        BY <1>1, <2>3
      <3>2. QED
        BY <1>2, <1>3, <1>4, <2>1, <2>3, <3>1
    <2>4. QED
      BY <2>2, <2>3
  <1>7. QED
    BY <1>2, <1>3, <1>4, <1>5, <1>6, SeqEqual DEF a, b

LEMMA DataKeeps ==
    ASSUME RInv, NEW c \in Conns, NEW n \in 1..Len(wire[c]), Data(c, n)
    PROVE  SocketsOK' /\ PipesOK'
  <1> DEFINE front == SubSeq(wire[c], 1, n)
             left == SubSeq(wire[c], n + 1, Len(wire[c]))
             b == socket[c].buffer \o front
             parsed == parse(b)
             q == unanswered[c]
  <1>1. SocketsOK /\ PipesOK
    BY DEF RInv
  <1>2. /\ socket[c].buffer \in Seq(Token) /\ wire[c] \in Seq(Token) /\ q \in Seq(Commands)
        /\ socket[c] \in Socket
    BY <1>1 DEF SocketsOK, Socket
  <1>3. front \in Seq(Token) /\ left \in Seq(Token) /\ front \o left = wire[c]
    BY <1>2, SplitAt
  <1>4. /\ socket' = [socket EXCEPT ![c].buffer = parsed.rest, ![c].pipeline = parsed.commands]
        /\ wire' = [wire EXCEPT ![c] = left]
        /\ UNCHANGED <<unanswered, selected>>
    BY DEF Data
  <1> HIDE DEF front, left
  <1>5. b \in Seq(Token) /\ b \o left = socket[c].buffer \o wire[c]
    <2>1. \A x, y, z \in Seq(Token) : (x \o y) \o z = x \o (y \o z)
      BY ONLY ConcatAssociative
    <2>2. \A x, y \in Seq(Token) : x \o y \in Seq(Token)
      BY ONLY ConcatProperties
    <2>3. b \in Seq(Token)
      BY <1>2, <1>3, <2>2
    <2>4. b \o left = socket[c].buffer \o (front \o left)
      BY <1>2, <1>3, <2>1
    <2>5. QED
      BY <1>3, <2>3, <2>4
  <1> HIDE DEF b
  <1>6. Parsed(parsed, b)
    BY <1>5, ParseReads
  <1> HIDE DEF parsed
  <1>7. parsed.commands \in Seq(Commands) /\ parsed.rest \in Seq(Token) /\ ~IsWhole(parsed.rest)
    BY <1>6 DEF Parsed
  <1>8. Stream(q, 0) = b \o left
    <2>1. socket[c].pipeline = << >>
      BY DEF Data, Idle
    <2>2. Len(socket[c].pipeline) = 0
      BY <2>1
    <2>3. QED
      BY <1>1, <1>5, <2>2 DEF PipesOK
  <1>9. /\ Len(parsed.commands) <= Len(q)
        /\ \A j \in 1..Len(parsed.commands) : q[j] = parsed.commands[j]
        /\ Stream(q, Len(parsed.commands)) = parsed.rest \o left
    <2>1. Len(parsed.commands) \in Nat /\ Len(q) \in Nat /\ 0 \in 0..Len(q)
      BY <1>2, <1>7
    <2>2. /\ 0 + Len(parsed.commands) <= Len(q)
          /\ \A j \in 1..Len(parsed.commands) : q[0 + j] = parsed.commands[j]
          /\ Stream(q, 0 + Len(parsed.commands)) = parsed.rest \o left
      BY <1>2, <1>3, <1>6, <1>8, <2>1 DEF Parsed
    <2>3. 0 + Len(parsed.commands) = Len(parsed.commands) /\ \A j \in 1..Len(parsed.commands) : 0 + j = j
      BY <2>1
    <2>4. QED
      BY <2>2, <2>3
  <1>10. /\ socket'[c].buffer = parsed.rest /\ socket'[c].pipeline = parsed.commands
         /\ socket'[c].namespace = socket[c].namespace
         /\ socket'[c] \in Socket
         /\ wire'[c] = left
         /\ socket' \in [Conns -> Socket] /\ wire' \in [Conns -> Seq(Token)]
         /\ \A d \in Conns : d # c => socket'[d] = socket[d] /\ wire'[d] = wire[d]
    BY <1>1, <1>2, <1>3, <1>4, <1>7 DEF SocketsOK, Socket
  <1>11. SocketsOK'
    BY <1>1, <1>4, <1>10 DEF SocketsOK
  <1>12. PipesOK'
    <2>1. ASSUME NEW d \in Conns
          PROVE  LET ahead == Len(socket'[d].pipeline) IN
                 /\ ahead <= Len(unanswered[d])
                 /\ \A j \in 1..ahead : unanswered[d][j] = socket'[d].pipeline[j]
                 /\ Stream(unanswered[d], ahead) = socket'[d].buffer \o wire'[d]
                 /\ ~IsWhole(socket'[d].buffer)
      <3>1. CASE d = c
        BY <1>7, <1>9, <1>10, <3>1 DEF q
      <3>2. CASE d # c
        BY <1>1, <1>10, <3>2 DEF PipesOK
      <3>3. QED
        BY <3>1, <3>2
    <2>2. QED
      BY <1>4, <2>1 DEF PipesOK
  <1>13. QED
    BY <1>11, <1>12

LEMMA StreamOfTail ==
    ASSUME NEW q \in Seq(Commands), NEW m \in 1..Len(q)
    PROVE  Stream(Tail(q), m - 1) = Stream(q, m)
  <1>1. /\ Tail(q) \in Seq(Commands) /\ Len(Tail(q)) = Len(q) - 1
        /\ \A i \in 1..Len(Tail(q)) : Tail(q)[i] = q[i + 1]
    BY HeadTailProperties
  <1>2. Len(q) \in Nat \ {0} /\ Len(Tail(q)) - (m - 1) = Len(q) - m
    BY <1>1
  <1>3. ASSUME NEW i \in 1..(Len(q) - m) PROVE Tail(q)[(m - 1) + i] = q[m + i]
    <2>1. (m - 1) + i \in 1..Len(Tail(q)) /\ ((m - 1) + i) + 1 = m + i
      BY <1>1, <1>2
    <2>2. QED
      BY <1>1, <2>1
  <1>4. [i \in 1..(Len(Tail(q)) - (m - 1)) |-> Bytes(Tail(q)[(m - 1) + i])]
           = [i \in 1..(Len(q) - m) |-> Bytes(q[m + i])]
    BY <1>2, <1>3
  <1>5. QED
    BY <1>4 DEF Stream

LEMMA ExecuteKeeps ==
    ASSUME RInv, NEW c \in Conns, Execute(c)
    PROVE  SocketsOK' /\ PipesOK'
  <1> DEFINE p == socket[c].pipeline
             q == unanswered[c]
             cmd == Head(p)
             ns == IF cmd.name = "SELECT" THEN Namespace(cmd.db, socket[c].namespace)
                   ELSE socket[c].namespace
             open == socket[c].open /\ cmd.name # "QUIT"
  <1>1. SocketsOK /\ PipesOK
    BY DEF RInv
  <1>2. /\ socket \in [Conns -> Socket] /\ socket[c] \in Socket
        /\ p \in Seq(Commands) /\ q \in Seq(Commands) /\ p # << >>
        /\ socket[c].namespace \in Namespaces
    BY <1>1 DEF SocketsOK, Socket, Execute
  <1>3. /\ socket' = [socket EXCEPT ![c].pipeline = Tail(p), ![c].namespace = ns, ![c].open = open]
        /\ selected' = IF cmd.name = "SELECT" THEN [selected EXCEPT ![c] = cmd.db] ELSE selected
        /\ unanswered' = [unanswered EXCEPT ![c] = Tail(q)]
        /\ wire' = wire
    BY DEF Execute
  <1>4. /\ cmd \in Commands /\ Len(p) \in Nat \ {0}
        /\ Tail(p) \in Seq(Commands) /\ Len(Tail(p)) = Len(p) - 1
        /\ \A i \in 1..Len(Tail(p)) : Tail(p)[i] = p[i + 1]
    <2>1. Len(p) \in Nat \ {0}
      BY <1>2
    <2>2. cmd \in Commands
      BY <1>2
    <2>3. QED
      BY <1>2, <2>1, <2>2, HeadTailProperties
  <1>5. /\ Len(p) <= Len(q)
        /\ \A j \in 1..Len(p) : q[j] = p[j]
        /\ Stream(q, Len(p)) = socket[c].buffer \o wire[c]
        /\ ~IsWhole(socket[c].buffer)
    BY <1>1 DEF PipesOK
  <1>6. /\ Tail(q) \in Seq(Commands) /\ Len(Tail(q)) = Len(q) - 1
        /\ \A i \in 1..Len(Tail(q)) : Tail(q)[i] = q[i + 1]
    <2>1. q # << >>
      <3>1. Len(q) \in Nat /\ Len(q) # 0
        BY <1>2, <1>4, <1>5
      <3>2. QED
        BY <3>1
    <2>2. QED
      BY <1>2, <2>1, HeadTailProperties
  <1>7. ns \in Namespaces /\ ns = Namespace(selected'[c], Default)
    <2>1. CASE cmd.name = "SELECT"
      <3>1. selected'[c] = cmd.db
        BY <1>1, <1>3, <2>1 DEF SocketsOK
      <3>2. Namespace(cmd.db, socket[c].namespace) = Namespace(cmd.db, Default)
        BY DEF Namespace
      <3>3. QED
        BY <1>4, <2>1, <3>1, <3>2, NamespaceType
    <2>2. CASE cmd.name # "SELECT"
      BY <1>1, <1>2, <1>3, <2>2 DEF SocketsOK
    <2>3. QED
      BY <2>1, <2>2
  <1>8. open \in BOOLEAN
    OBVIOUS
  <1> HIDE DEF ns, open, cmd, p, q
  <1>9. /\ socket' \in [Conns -> Socket]
        /\ socket'[c].pipeline = Tail(p) /\ socket'[c].buffer = socket[c].buffer
        /\ socket'[c].namespace = ns
        /\ \A d \in Conns : d # c => socket'[d] = socket[d]
    BY <1>2, <1>3, <1>4, <1>7, <1>8 DEF Socket
  <1>10. /\ unanswered' \in [Conns -> Seq(Commands)]
         /\ unanswered'[c] = Tail(q)
         /\ \A d \in Conns : d # c => unanswered'[d] = unanswered[d]
    BY <1>1, <1>3, <1>6 DEF SocketsOK
  <1>11. DOMAIN selected' = Conns /\ \A d \in Conns : d # c => selected'[d] = selected[d]
    BY <1>1, <1>3 DEF SocketsOK
  <1>12. SocketsOK'
    BY <1>1, <1>3, <1>7, <1>9, <1>10, <1>11 DEF SocketsOK
  <1>13. PipesOK'
    <2>1. ASSUME NEW d \in Conns
          PROVE  LET ahead == Len(socket'[d].pipeline) IN
                 /\ ahead <= Len(unanswered'[d])
                 /\ \A j \in 1..ahead : unanswered'[d][j] = socket'[d].pipeline[j]
                 /\ Stream(unanswered'[d], ahead) = socket'[d].buffer \o wire[d]
                 /\ ~IsWhole(socket'[d].buffer)
      <3>1. CASE d = c
        <4>1. Len(q) \in Nat
          BY <1>2
        <4>2. Len(Tail(p)) <= Len(Tail(q))
          BY <1>4, <1>5, <1>6, <4>1
        <4>3. ASSUME NEW j \in 1..Len(Tail(p)) PROVE Tail(q)[j] = Tail(p)[j]
          <5>1. j + 1 \in 1..Len(p) /\ j \in 1..Len(Tail(q))
            BY <1>4, <1>6, <4>1, <4>2
          <5>2. QED
            BY <1>4, <1>5, <1>6, <5>1
        <4>4. Stream(Tail(q), Len(Tail(p))) = Stream(q, Len(p))
          <5>1. Len(p) \in 1..Len(q)
            BY <1>4, <1>5, <4>1
          <5>2. QED
            BY <1>2, <1>4, <5>1, StreamOfTail
        <4>5. QED
          BY <1>5, <1>9, <1>10, <3>1, <4>2, <4>3, <4>4
      <3>2. CASE d # c
        BY <1>1, <1>9, <1>10, <3>2, ZenonT(30) DEF PipesOK
      <3>3. QED
        BY <3>1, <3>2
    <2>2. QED
      BY <1>3, <2>1 DEF PipesOK
  <1>14. QED
    BY <1>12, <1>13

-----------------------------------------------------------------------------
(* The calls of the handler in progress.                                   *)

LEMMA NoCalls ==
    ASSUME NEW q, q = << >>
    PROVE  q \in Seq(Range(q)) /\ Len(q) = 0
  OBVIOUS

LEMMA NamespaceKeptBy ==
    ASSUME RInv, [RedisNext]_all, ~(\E c \in Conns : Execute(c))
    PROVE  \A c \in Conns : socket'[c].namespace = socket[c].namespace
  <1>1. \A c \in Conns : socket \in [Conns -> Socket]
    BY DEF RInv, SocketsOK
  <1>2. UNCHANGED rvars => UNCHANGED socket
    BY DEF rvars
  <1>3. ASSUME NEW c \in Conns, NEW cmd \in Commands, Send(c, cmd) PROVE UNCHANGED socket
    BY <1>3 DEF Send
  <1>4. ASSUME NEW c \in Conns, NEW n \in 1..Len(wire[c]), Data(c, n)
        PROVE  \A d \in Conns : socket'[d].namespace = socket[d].namespace
    BY <1>1, <1>4 DEF Data, Socket
  <1>5. UNCHANGED all => UNCHANGED socket
    BY DEF all, rvars
  <1>6. QED
    BY <1>2, <1>3, <1>4, <1>5 DEF RedisNext

LEMMA CallsKept ==
    ASSUME RInv, [RedisNext]_all
    PROVE  CallsOK'
  <1>0. CallsOK /\ SocketsOK
    BY DEF RInv
  <1>1. CASE running' = << >>
    BY <1>1, NoCalls DEF CallsOK
  <1>2. CASE \E c \in Conns : Execute(c) /\ running' # << >>
    <2>1. PICK c \in Conns : Execute(c) /\ running' # << >>
      BY <1>2
    <2> DEFINE cmd == Head(socket[c].pipeline)
               op == OperationOf[cmd.name]
               ns == socket[c].namespace
    <2>2. /\ cmd.name \in DOMAIN OperationOf
          /\ running' = Calls(op, ns, cmd.args, c)
          /\ socket' = [socket EXCEPT ![c].pipeline = Tail(@),
                           ![c].namespace = IF cmd.name = "SELECT" THEN Namespace(cmd.db, @) ELSE @,
                           ![c].open = @ /\ cmd.name # "QUIT"]
          /\ socket[c].pipeline # << >>
      BY <2>1 DEF Execute
    <2>3. cmd.name # "SELECT"
      BY <2>2 DEF OperationOf
    <2>4. socket \in [Conns -> Socket] /\ socket[c] \in Socket /\ cmd \in Commands /\ ns \in Namespaces
      BY <1>0, <2>2 DEF SocketsOK, Socket
    <2>5. socket'[c].namespace = ns
      BY <2>2, <2>3, <2>4 DEF Socket
    <2>6. Asks(op, ns, cmd.args) /\ op # "raw"
      <3>1. op # "raw"
        BY <2>2 DEF OperationOf
      <3>2. QED
        BY <2>2, <2>4, <3>1, CommandsAssumption
    <2> HIDE DEF op, ns, cmd
    <2>7. /\ running' \in Seq(Range(running'))
          /\ \A i \in 1..Len(running') : /\ ValidCall(running'[i]) /\ running'[i].by = c
                                        /\ IsOf(running'[i], ns)
      BY <2>2, <2>6, CallsAreValid
    <2>8. QED
      BY <2>5, <2>7 DEF CallsOK, ValidCall, IsOf
  <1>3. CASE ~(\E c \in Conns : Execute(c))
    <2>0. \A c \in Conns : socket'[c].namespace = socket[c].namespace
      BY <1>3, NamespaceKeptBy
    <2>1. CASE UNCHANGED running
      BY <1>0, <2>0, <2>1 DEF CallsOK, ValidCall, IsOf
    <2>2. CASE Run
      <3>1. running # << >> /\ running' = Tail(running) /\ running \in Seq(Range(running))
        BY <1>0, <2>2 DEF Run, Busy, CallsOK
      <3>2. /\ running' \in Seq(Range(running'))
            /\ \A i \in 1..Len(running') : i + 1 \in 1..Len(running) /\ running'[i] = running[i + 1]
        BY <3>1, OneCallDone
      <3>3. ASSUME NEW i \in 1..Len(running'), running'[i].by \in Conns
            PROVE  IsOf(running'[i], socket[running'[i].by].namespace)
        BY <1>0, <3>2, <3>3 DEF CallsOK
      <3>4. ASSUME NEW i \in 1..Len(running'), running'[i].by \in Conns
            PROVE  IsOf(running'[i], socket'[running'[i].by].namespace)
        BY <2>0, <3>3, <3>4
      <3>5. QED
        BY <1>0, <3>2, <3>4 DEF CallsOK, ValidCall, IsOf
    <2>3. ASSUME NEW s \in Sockets, NEW m \in Messages, Message(s, m) PROVE CallsOK'
      <3>1. /\ running' = Calls(m.type, m.ns, m.args, s)
            /\ Asks(m.type, m.ns, m.args) /\ m.type # "raw"
        BY <2>3, MessagesAssumption DEF Message
      <3>2. /\ running' \in Seq(Range(running'))
            /\ \A i \in 1..Len(running') : ValidCall(running'[i]) /\ running'[i].by = s
        BY <3>1, CallsAreValid
      <3>3. s \notin Conns
        BY ConnsAssumption
      <3>4. QED
        BY <3>2, <3>3 DEF CallsOK, ValidCall
    <2>6. ASSUME NEW upload \in Uploads, Upload(upload) PROVE CallsOK'
      <3>1. running' = Restores(upload)
        BY <2>6 DEF Upload
      <3>2. /\ running' \in Seq(Range(running'))
            /\ \A i \in 1..Len(running') : ValidCall(running'[i]) /\ running'[i].by = Null
        BY <3>1, RestoresAreValid
      <3>3. QED
        BY <3>2, ConnsAssumption DEF CallsOK, ValidCall
    <2>4. \/ UNCHANGED running
          \/ Run
          \/ \E s \in Sockets, m \in Messages : Message(s, m)
          \/ \E upload \in Uploads : Upload(upload)
      <3>1. ASSUME WebSocketsNext, ~(\E s \in Sockets, m \in Messages : Message(s, m)),
                   ~(\E upload \in Uploads : Upload(upload))
            PROVE  UNCHANGED running
        BY <3>1 DEF WebSocketsNext, Expires, Open, Close, AnswerOnly, Subscribe, Unsubscribe, Elapses, wsvars
      <3>2. ASSUME NEW c \in Conns, NEW cmd \in Commands, Send(c, cmd) PROVE UNCHANGED running
        BY <3>2 DEF Send, wsvars
      <3>3. ASSUME NEW c \in Conns, NEW n \in 1..Len(wire[c]), Data(c, n) PROVE UNCHANGED running
        BY <3>3 DEF Data, wsvars
      <3>4. UNCHANGED all => UNCHANGED running
        BY DEF all, wsvars
      <3>5. QED
        BY <1>3, <3>1, <3>2, <3>3, <3>4 DEF RedisNext
    <2>5. QED
      BY <2>1, <2>2, <2>3, <2>4, <2>6
  <1>4. QED
    BY <1>1, <1>2, <1>3

-----------------------------------------------------------------------------
(* The mirrors.                                                            *)

\* A publication tells the sockets that hear it, and they follow.
LEMMA PublishKeeps ==
    ASSUME MirrorsOK, NEW event, NEW key, Publish(event, key),
           Noted(event, key), UNCHANGED topics,
           event \in {"set", "raw"} => /\ key \in Cached(cache')
                                      /\ Cached(cache') \subseteq Cached(cache) \cup {key},
           event \in {"delete", "expired"} => Cached(cache') = Cached(cache) \ {key},
           event = "clear" => Cached(cache') = {},
           event \notin {"set", "raw", "delete", "expired", "clear"} => Cached(cache') = Cached(cache)
    PROVE  MirrorsOK'
  <1>1. /\ DOMAIN topics = Sockets /\ DOMAIN mirror = Sockets
        /\ \A s \in Sockets : IsOpen(s) /\ "cache-events" \notin topics[s] => mirror[s] = Null
        /\ evicted \cap Cached(cache) = {}
        /\ \A s \in Sockets : Hears(s) /\ mirror[s] # Null =>
               /\ Cached(cache) \subseteq mirror[s] \cup uploaded
               /\ mirror[s] \subseteq Cached(cache) \cup evicted
    BY DEF MirrorsOK, MirrorsFollowTheCache
  <1>2. /\ \A s \in Sockets : IsOpen(s)' <=> IsOpen(s)
        /\ \A s \in Sockets : Hears(s)' <=> Hears(s)
        /\ topics' = topics
    BY DEF IsOpen, Hears
  <1>3. /\ DOMAIN mirror' = Sockets
        /\ \A s \in Sockets : Hears(s) => mirror'[s] = Heard(mirror[s], event, key)
        /\ \A s \in Sockets : ~Hears(s) => mirror'[s] = mirror[s]
    BY DEF Publish
  <1>4. ASSUME NEW s \in Sockets, IsOpen(s), "cache-events" \notin topics[s]
        PROVE  mirror'[s] = Null
    BY <1>1, <1>3, <1>4 DEF Hears
  <1>0. evicted' = EvictedAfter(event, key) /\ uploaded' = UploadedAfter(event, key)
    BY DEF Noted
  <1>5. evicted' \cap Cached(cache') = {}
    <2>1. CASE event \in {"set", "raw"}
      BY <1>0, <1>1, <2>1 DEF EvictedAfter
    <2>2. CASE event = "expired"
      BY <1>0, <1>1, <2>2 DEF EvictedAfter
    <2>3. CASE event = "clear"
      BY <1>0, <2>3 DEF EvictedAfter
    <2>4. CASE event \notin {"set", "raw", "expired", "clear"}
      BY <1>0, <1>1, <2>4 DEF EvictedAfter
    <2>5. QED
      BY <2>1, <2>2, <2>3, <2>4
  <1>6. ASSUME NEW s \in Sockets, Hears(s), mirror'[s] # Null
        PROVE  /\ Cached(cache') \subseteq mirror'[s] \cup uploaded'
               /\ mirror'[s] \subseteq Cached(cache') \cup evicted'
    <2>1. mirror'[s] = Heard(mirror[s], event, key)
      BY <1>3, <1>6
    <2>2. CASE event = "clear"
      BY <2>1, <2>2 DEF Heard
    <2>3. CASE event # "clear"
      <3>1. mirror[s] # Null
        BY <1>6, <2>1, <2>3 DEF Heard
      <3>2. /\ Cached(cache) \subseteq mirror[s] \cup uploaded
            /\ mirror[s] \subseteq Cached(cache) \cup evicted
        BY <1>1, <1>6, <3>1
      <3>3. CASE event \in {"set", "raw"}
        <4>1. /\ event = "set" => /\ mirror'[s] = mirror[s] \cup {key}
                                  /\ uploaded' = Cached(cache') \cap (uploaded \ {key})
              /\ event = "raw" => /\ mirror'[s] = mirror[s]
                                  /\ uploaded' = Cached(cache') \cap (uploaded \cup {key})
          BY <1>0, <2>1, <3>1 DEF Heard, UploadedAfter
        <4>2. evicted' = (evicted \cup (Cached(cache) \ Cached(cache'))) \ {key}
          BY <1>0, <3>3 DEF EvictedAfter
        <4>3. CASE event = "set"
          BY <3>2, <4>1, <4>2, <4>3
        <4>4. CASE event = "raw"
          BY <3>2, <4>1, <4>2, <4>4
        <4>5. QED
          BY <3>3, <4>3, <4>4
      <3>4. CASE event \in {"delete", "expired"}
        <4>1. mirror'[s] = mirror[s] \ {key}
          BY <2>1, <3>1, <3>4 DEF Heard
        <4>2. evicted \ {key} \subseteq evicted' /\ uploaded' = Cached(cache') \cap uploaded
          BY <1>0, <3>4 DEF EvictedAfter, UploadedAfter
        <4>3. QED
          BY <3>2, <3>4, <4>1, <4>2
      <3>5. CASE event \notin {"set", "raw", "delete", "expired"}
        <4>1. /\ mirror'[s] = mirror[s] /\ evicted' = evicted
              /\ uploaded' = Cached(cache') \cap uploaded
          BY <1>0, <2>1, <2>3, <3>5 DEF Heard, EvictedAfter, UploadedAfter
        <4>2. QED
          BY <2>3, <3>2, <3>5, <4>1
      <3>6. QED
        BY <3>3, <3>4, <3>5
    <2>4. QED
      BY <2>2, <2>3
  <1>7. MirrorsFollowTheCache'
    BY <1>2, <1>6 DEF MirrorsFollowTheCache
  <1>8. QED
    BY <1>1, <1>2, <1>3, <1>4, <1>5, <1>7 DEF MirrorsOK

LEMMA RunKeeps ==
    ASSUME RInv, Run
    PROVE  MirrorsOK'
  <1> DEFINE call == Head(running)
  <1>1. /\ Perform(call) /\ ValidCall(call)
        /\ IF Fruitless(call) THEN UNCHANGED mirror ELSE Publish(call.op, call.key)
        /\ Noted(call.op, call.key)
        /\ UNCHANGED topics
        /\ IInv /\ MirrorsOK
    BY HeadIsValid DEF Run, RInv
  <1> HIDE DEF call
  <1>2. /\ call.op \in {"set", "raw", "get", "delete", "incr", "touch", "keys", "clear"}
        /\ call.op \in {"set", "raw"} => /\ call.key \in Cached(cache')
                                         /\ Cached(cache') \subseteq Cached(cache) \cup {call.key}
        /\ call.op = "delete" => Cached(cache') = Cached(cache) \ {call.key}
        /\ call.op = "clear" => Cached(cache') = {}
        /\ call.op \notin {"set", "raw", "delete", "clear"} => Cached(cache') = Cached(cache)
    BY <1>1, PerformEffect
  <1>3. CASE ~Fruitless(call)
    BY <1>1, <1>2, <1>3, PublishKeeps
  <1>4. CASE Fruitless(call)
    <2>1. call.op \notin {"set", "raw", "clear"} /\ Cached(cache') = Cached(cache)
      BY <1>2, <1>4 DEF Fruitless
    <2>2. evicted' = evicted /\ uploaded' = Cached(cache) \cap uploaded /\ UNCHANGED mirror
      BY <1>1, <1>2, <1>4, <2>1 DEF Noted, EvictedAfter, UploadedAfter
    <2>3. QED
      BY <1>1, <2>1, <2>2 DEF MirrorsOK, MirrorsFollowTheCache, Hears, IsOpen
  <1>5. QED
    BY <1>3, <1>4

LEMMA ExpiryKeeps ==
    ASSUME RInv, NEW timer \in timers, Expires(timer)
    PROVE  MirrorsOK'
  <1>1. /\ cache' = Delete(cache, timer.key)
        /\ Publish("expired", timer.key)
        /\ Noted("expired", timer.key)
        /\ UNCHANGED topics
        /\ EngineOK(cache) /\ MirrorsOK
    BY DEF Expires, TimerFires, RInv, IInv
  <1>2. Cached(cache') = Cached(cache) \ {timer.key}
    <2>1. CASE timer.key \in Cached(cache)
      BY <1>1, <2>1, UnlinkRemoves DEF EngineOK, Delete
    <2>2. CASE timer.key \notin Cached(cache)
      BY <1>1, <2>2 DEF Delete
    <2>3. QED
      BY <2>1, <2>2
  <1>3. QED
    BY <1>1, <1>2, PublishKeeps

\* The handlers of one socket that do not call the service.
LEMMA SocketKeeps ==
    ASSUME RInv, NEW s \in Sockets, NEW t,
           \/ Open(s) \/ Close(s) \/ AnswerOnly(s)
           \/ Subscribe(s, t) \/ Unsubscribe(s, t)
    PROVE  MirrorsOK'
  <1>1. /\ DOMAIN topics = Sockets /\ DOMAIN mirror = Sockets
        /\ \A r \in Sockets : IsOpen(r) /\ "cache-events" \notin topics[r] => mirror[r] = Null
        /\ evicted \cap Cached(cache) = {}
        /\ \A r \in Sockets : Hears(r) /\ mirror[r] # Null =>
               /\ Cached(cache) \subseteq mirror[r] \cup uploaded
               /\ mirror[r] \subseteq Cached(cache) \cup evicted
    BY DEF RInv, MirrorsOK, MirrorsFollowTheCache
  <1>2. UNCHANGED <<cache, evicted, uploaded>>
    BY DEF Open, Close, AnswerOnly, Subscribe, Unsubscribe, vars, history
  <1>3. DOMAIN topics' = Sockets /\ DOMAIN mirror' = Sockets
    BY <1>1 DEF Open, Close, AnswerOnly, Subscribe, Unsubscribe
  <1>4. \A r \in Sockets : r # s => topics'[r] = topics[r] /\ mirror'[r] = mirror[r]
    BY <1>1 DEF Open, Close, AnswerOnly, Subscribe, Unsubscribe
  <1>5. /\ (IsOpen(s) /\ "cache-events" \notin topics[s] => mirror[s] = Null)'
        /\ Hears(s)' /\ mirror'[s] # Null =>
               /\ Cached(cache) \subseteq mirror'[s] \cup uploaded
               /\ mirror'[s] \subseteq Cached(cache) \cup evicted
    <2>1. CASE Open(s)
      <3>1. /\ topics'[s] = {"cache-events", "stats"}
            /\ mirror'[s] = IF Cached(cache) = {} THEN {} ELSE Null
        BY <1>1, <2>1 DEF Open
      <3>2. QED
        BY <3>1 DEF IsOpen, Hears
    <2>2. CASE Close(s)
      BY <1>1, <2>2 DEF Close
    <2>3. CASE AnswerOnly(s)
      BY <1>1, <2>3 DEF AnswerOnly, IsOpen, Hears
    <2>4. CASE Subscribe(s, t)
      <3>1. topics'[s] = topics[s] \cup {t} /\ mirror' = mirror /\ IsOpen(s)
        BY <1>1, <2>4 DEF Subscribe, CheckWSRate
      <3>2. QED
        BY <1>1, <3>1 DEF IsOpen, Hears
    <2>5. CASE Unsubscribe(s, t)
      <3>1. /\ topics'[s] = topics[s] \ {t} /\ IsOpen(s)
            /\ mirror'[s] = IF t = "cache-events" THEN Null ELSE mirror[s]
        BY <1>1, <2>5 DEF Unsubscribe, CheckWSRate
      <3>2. QED
        BY <1>1, <3>1 DEF IsOpen, Hears
    <2>6. QED
      BY <2>1, <2>2, <2>3, <2>4, <2>5
  <1>6. ASSUME NEW r \in Sockets
        PROVE  /\ (IsOpen(r) /\ "cache-events" \notin topics[r] => mirror[r] = Null)'
               /\ Hears(r)' /\ mirror'[r] # Null =>
                     /\ Cached(cache) \subseteq mirror'[r] \cup uploaded
                     /\ mirror'[r] \subseteq Cached(cache) \cup evicted
    <2>1. CASE r = s
      BY <1>5, <2>1
    <2>2. CASE r # s
      BY <1>1, <1>4, <2>2 DEF IsOpen, Hears
    <2>3. QED
      BY <2>1, <2>2
  <1>7. QED
    BY <1>1, <1>2, <1>3, <1>6 DEF MirrorsOK, MirrorsFollowTheCache

LEMMA MirrorsKept ==
    ASSUME RInv, [RedisNext]_all
    PROVE  MirrorsOK'
  <1>1. ASSUME UNCHANGED <<cache, topics, mirror, evicted, uploaded>> PROVE MirrorsOK'
    BY <1>1 DEF RInv, MirrorsOK, MirrorsFollowTheCache, Hears, IsOpen
  <1>2. CASE Run
    BY <1>2, RunKeeps
  <1>3. CASE WebSocketsNext
    <2>1. ASSUME NEW s \in Sockets, NEW m \in Messages, Message(s, m) PROVE MirrorsOK'
      BY <1>1, <2>1 DEF Message, vars, history
    <2>2. ASSUME Elapses PROVE MirrorsOK'
      BY <1>1, <2>2 DEF Elapses, Tick, data, wsvars, history
    <2>3. ASSUME NEW s \in Sockets, NEW t \in Topics, Subscribe(s, t) \/ Unsubscribe(s, t)
          PROVE  MirrorsOK'
      BY <2>3, SocketKeeps
    <2>4. ASSUME NEW s \in Sockets, Open(s) \/ Close(s) \/ AnswerOnly(s)
          PROVE  MirrorsOK'
      BY <2>4, SocketKeeps
    <2>5. ASSUME NEW upload \in Uploads, Upload(upload) PROVE MirrorsOK'
      BY <1>1, <2>5 DEF Upload, vars, history
    <2>6. QED
      BY <1>3, <2>1, <2>2, <2>3, <2>4, <2>5, ExpiryKeeps DEF WebSocketsNext
  <1>4. ASSUME NEW c \in Conns, NEW cmd \in Commands, Send(c, cmd) PROVE MirrorsOK'
    BY <1>1, <1>4 DEF Send, vars, wsvars, history
  <1>5. ASSUME NEW c \in Conns, NEW n \in 1..Len(wire[c]), Data(c, n) PROVE MirrorsOK'
    BY <1>1, <1>5 DEF Data, vars, wsvars, history
  <1>6. ASSUME NEW c \in Conns, Execute(c) PROVE MirrorsOK'
    BY <1>1, <1>6 DEF Execute, vars, history
  <1>7. UNCHANGED all => MirrorsOK'
    BY <1>1 DEF all, vars, wsvars, history
  <1>8. QED
    BY <1>2, <1>3, <1>4, <1>5, <1>6, <1>7 DEF RedisNext

-----------------------------------------------------------------------------
(* The theorems of the connections.                                        *)

LEMMA RInit == RedisInit => RInv
  <1> SUFFICES ASSUME RedisInit PROVE RInv
    OBVIOUS
  <1>1. WebSocketsInit /\ Init
    BY DEF RedisInit, WebSocketsInit
  <1>2. IInv
    BY <1>1, InitInv
  <1>3. SocketsOK
    <2>1. << >> \in Seq(Token) /\ << >> \in Seq(Commands) /\ Default \in Namespaces
      BY DEF Namespaces
    <2>2. [buffer |-> << >>, pipeline |-> << >>, namespace |-> Default, open |-> TRUE] \in Socket
      BY <2>1 DEF Socket
    <2>3. Namespace(0, Default) = Default
      BY DEF Namespace
    <2>4. QED
      BY <2>1, <2>2, <2>3 DEF RedisInit, SocketsOK
  <1>4. PipesOK
    <2>1. << >> \in Seq(Commands) /\ Len(<< >>) = 0 /\ << >> \o << >> = << >>
      OBVIOUS
    <2>2. Stream(<< >>, 0) = << >>
      BY <2>1, StreamOfNone
    <2>3. ~IsWhole(<< >>)
      BY DEF IsWhole
    <2>4. \A c \in Conns : /\ socket[c].pipeline = << >> /\ socket[c].buffer = << >>
                           /\ wire[c] = << >> /\ unanswered[c] = << >>
      BY DEF RedisInit
    <2>5. ASSUME NEW e, e = << >>
          PROVE  /\ Len(e) <= Len(e)
                 /\ \A j \in 1..Len(e) : e[j] = e[j]
                 /\ Stream(e, Len(e)) = e \o e
                 /\ ~IsWhole(e)
      BY <2>1, <2>2, <2>3, <2>5
    <2>6. QED
      BY <2>4, <2>5 DEF PipesOK
  <1>5. CallsOK
    BY <1>1, NoCalls DEF WebSocketsInit, CallsOK
  <1>6. MirrorsOK
    BY <1>1 DEF WebSocketsInit, MirrorsOK, MirrorsFollowTheCache, Hears, IsOpen
  <1>7. QED
    BY <1>2, <1>3, <1>4, <1>5, <1>6 DEF RInv

LEMMA RStep == RInv /\ [RedisNext]_all => RInv'
  <1> SUFFICES ASSUME RInv, [RedisNext]_all PROVE RInv'
    OBVIOUS
  <1>1. IInv'
    <2>1. IInv
      BY DEF RInv
    <2>2. QED
      BY <2>1, ServiceSteps, NextInv
  <1>2. SocketsOK' /\ PipesOK'
    <2>1. UNCHANGED all => UNCHANGED rvars
      BY DEF all
    <2>2. QED
      BY <2>1, ConnectionsKept, SendKeeps, DataKeeps, ExecuteKeeps DEF RedisNext
  <1>3. CallsOK' /\ MirrorsOK'
    BY CallsKept, MirrorsKept
  <1>4. QED
    BY <1>1, <1>2, <1>3 DEF RInv

LEMMA RInductive == RedisSpec => []RInv
  BY RInit, RStep, PTL DEF RedisSpec

\* Over every interleaving of sockets, connections and timers, and for caches
\* and messages of any size, a client that hears the events from an empty
\* cache on knows every key that is cached, but for those that an upload
\* restored, and beyond these evicted ones only.
THEOREM MirrorsFollow == RedisSpec => []MirrorsFollowTheCache
  <1>1. RInv => MirrorsFollowTheCache
    BY DEF RInv, MirrorsOK
  <1>2. QED
    BY <1>1, RInductive, PTL

\* However the bytes of any number of pipelined commands are cut into chunks,
\* the commands run, buffered and on the wire are, in this order, those that
\* have no reply, and none that arrived in full is left in the buffer.
THEOREM PipelinesStayWhole == RedisSpec => []PipelinesAreWhole
  <1>1. ASSUME RInv PROVE PipelinesAreWhole
    <2>1. ASSUME NEW c \in Conns
          PROVE  LET queue == unanswered[c]
                     ahead == Len(socket[c].pipeline) IN
                 /\ SubSeq(queue, 1, ahead) = socket[c].pipeline
                 /\ Stream(queue, ahead) = socket[c].buffer \o wire[c]
                 /\ ~IsWhole(socket[c].buffer)
      <3> DEFINE q == unanswered[c]
                 p == socket[c].pipeline
      <3>1. q \in Seq(Commands) /\ p \in Seq(Commands) /\ Len(q) \in Nat /\ Len(p) \in Nat
        BY <1>1 DEF RInv, SocketsOK, Socket
      <3>2. /\ Len(p) <= Len(q)
            /\ \A j \in 1..Len(p) : q[j] = p[j]
            /\ Stream(q, Len(p)) = socket[c].buffer \o wire[c]
            /\ ~IsWhole(socket[c].buffer)
        BY <1>1 DEF RInv, PipesOK
      <3> HIDE DEF p, q
      <3>3. SubSeq(q, 1, Len(p)) = p
        <4>1. \A i \in 1..Len(p) : q[i] \in Commands
          BY <3>1, <3>2
        <4>2. /\ SubSeq(q, 1, Len(p)) \in Seq(Commands)
              /\ Len(SubSeq(q, 1, Len(p))) = IF 1 <= Len(p) THEN Len(p) - 1 + 1 ELSE 0
              /\ \A i \in 1..(Len(p) - 1 + 1) : SubSeq(q, 1, Len(p))[i] = q[1 + i - 1]
          BY <3>1, <4>1, SubSeqProperties
        <4>3. \A i \in 1..Len(p) : i \in 1..(Len(p) - 1 + 1) /\ 1 + i - 1 = i
          BY <3>1
        <4>4. Len(SubSeq(q, 1, Len(p))) = Len(p)
          BY <3>1, <4>2
        <4>5. \A i \in 1..Len(p) : SubSeq(q, 1, Len(p))[i] = p[i]
          BY <3>2, <4>2, <4>3
        <4>6. QED
          BY <3>1, <4>2, <4>4, <4>5, SeqEqual
      <3>4. QED
        BY <3>2, <3>3 DEF p, q
    <2>2. QED
      BY <2>1 DEF PipelinesAreWhole, Stream
  <1>2. QED
    BY <1>1, RInductive, PTL

\* What a command whose key has no character zero does changes no entry outside
\* the database its client selected last, unless its new entry evicts another's;
\* a flush clears every database.
THEOREM DatabasesStayApart == RedisSpec => NamespacesStayApart
  <1>1. ASSUME RInv, [RedisNext]_all, NEW c \in Conns, Mutates(c), Head(running).plain,
               NEW x \in DOMAIN FullKey, x[2] \in Plain,
               NEW k, k = FullKey[x], k \notin evicted' \ evicted,
               k \in Cached(cache) \cup Cached(cache')
        PROVE  \/ k \in Cached(cache) \cap Cached(cache') /\ cache.entries[k] = cache'.entries[k]
               \/ x[1] = IF selected[c] = 0 THEN Default ELSE selected[c]
    <2> DEFINE call == Head(running)
    <2>0. Busy /\ call.by = c /\ call.op # "clear"
      BY <1>1 DEF Mutates
    <2>1. CASE Run
      <3>1. /\ Perform(call) /\ ValidCall(call) /\ IInv
            /\ evicted' = EvictedAfter(call.op, call.key)
            /\ IsOf(call, socket[c].namespace)
        BY <1>1, <2>0, <2>1, HeadIsValid DEF Run, RInv, Noted
      <3>2. socket[c].namespace = IF selected[c] = 0 THEN Default ELSE selected[c]
        BY <1>1 DEF RInv, SocketsOK, Namespace
      <3>3. evicted \cap Cached(cache) = {}
        BY <1>1 DEF RInv, MirrorsOK
      <3>4. call.op # "clear" /\ call.plain
        BY <1>1, <2>0
      <3> HIDE DEF call
      <3>5. /\ call.op \in {"set", "raw", "get", "delete", "incr", "touch", "keys", "clear"}
            /\ call.op \in {"set", "raw"} => Cached(cache') \subseteq Cached(cache) \cup {call.key}
            /\ call.op = "delete" => Cached(cache') = Cached(cache) \ {call.key}
            /\ call.op \notin {"set", "raw", "delete", "clear"} => Cached(cache') = Cached(cache)
            /\ \A y \in Cached(cache) \cap Cached(cache') :
                  y # call.key => cache'.entries[y] = cache.entries[y]
        BY <3>1, PerformEffect
      <3>6. CASE k = call.key
        <4>1. PICK y \in DOMAIN FullKey : /\ y[1] = socket[c].namespace /\ call.key = FullKey[y]
                                         /\ call.plain = (y[2] \in Plain)
          BY <3>1 DEF IsOf
        <4>2. y[2] \in Plain /\ FullKey[x] = FullKey[y]
          BY <1>1, <3>4, <3>6, <4>1
        <4>4. x = y
          BY <1>1, <4>2, FullKeyAssumption
        <4>3. QED
          BY <3>2, <4>1, <4>4
      <3>7. CASE k # call.key
        <4>1. k \in Cached(cache)
          BY <1>1, <3>4, <3>5, <3>7
        <4>2. k \in Cached(cache')
          <5>1. CASE call.op \in {"set", "raw"}
            <6>1. evicted' = (evicted \cup (Cached(cache) \ Cached(cache'))) \ {call.key}
              BY <3>1, <5>1 DEF EvictedAfter
            <6>2. QED
              BY <1>1, <3>3, <3>7, <4>1, <6>1
          <5>2. CASE call.op \notin {"set", "raw"}
            BY <3>4, <3>5, <3>7, <4>1, <5>2
          <5>3. QED
            BY <5>1, <5>2
        <4>3. QED
          BY <3>5, <3>7, <4>1, <4>2
      <3>8. QED
        BY <3>6, <3>7
    <2>2. CASE UNCHANGED all
      BY <1>1, <2>2 DEF all, vars
    <2>3. QED
      BY <1>1, <2>0, <2>1, <2>2 DEF RedisNext, Idle, Send, Data, Execute
  <1>2. ASSUME RInv, [RedisNext]_all, NEW c \in Conns, Mutates(c), Head(running).plain
        PROVE  Confined(c)
    BY <1>1, <1>2 DEF Confined
  <1>3. RInv /\ [RedisNext]_all =>
           (\A c \in Conns : Mutates(c) /\ Head(running).plain => Confined(c))
    BY <1>2
  <1>4. QED
    BY <1>3, RInductive, PTL DEF NamespacesStayApart, RedisSpec
=============================================================================
