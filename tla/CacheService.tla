---------------------------- MODULE CacheService ----------------------------
(***************************************************************************)
(* The cache service (services/cache-service.ts) over the engine: the set  *)
(* of known keys, the bloom filter, transparent compression and the expiry *)
(* timers.  Its methods are synchronous, so each is one step of the event  *)
(* loop; a timer callback is another, and runs at its due time or later.   *)
(* exportEntries, which calls the engine once per key, runs a step per     *)
(* key, with nothing in between.                                           *)
(***************************************************************************)
EXTENDS CacheOps

CONSTANTS
    Payloads,     \* the values that clients send
    Pack,         \* the stored form of the payloads compressed
    Unpack,       \* what get makes of the values that begin with the marker
    Wide,         \* stored forms longer than the bridge's read buffer
    BloomFilter,  \* enableBloomFilter
    Hash,         \* the bits of each key; none for the key of length zero
    TTLs,         \* the times to live that clients pass
    DefaultTTL,
    Undefined,    \* no time to live passed
    Null,         \* no timer, no expiry, no answer
    Deltas,
    MaxAccess,    \* bound on the accesses of one entry
    MaxTime       \* bound on the clock

\* A client may send a value that begins with the marker of compression, and
\* get decodes it; one that does not decode has the error for its image.
ASSUME PayloadsAssumption ==
    /\ Payloads \subseteq Values /\ DOMAIN Unpack \subseteq Values
    /\ Unpack \in [DOMAIN Unpack -> Values]
    /\ DOMAIN Pack \subseteq Payloads
    /\ Pack \in [DOMAIN Pack -> DOMAIN Unpack]
    /\ \A v \in DOMAIN Pack : Unpack[Pack[v]] = v
    /\ Numbers \subseteq Payloads \ DOMAIN Unpack
ASSUME TTLAssumption ==
    DefaultTTL \in Nat /\ TTLs \subseteq Nat /\ Undefined \notin Nat
ASSUME NullAssumption ==
    Null \notin Values /\ Null \notin Int /\ Null \notin [key : Keys, due : Nat]
ASSUME HashAssumption == \A k \in Keys : IsFiniteSet(Hash[k])
ASSUME BloomAssumption == BloomFilter \in BOOLEAN
ASSUME ServiceDeltasAssumption == Deltas \subseteq Int

VARIABLES
    cache,      \* the engine's
    keySet,
    bloom,      \* the bits set in the filter
    ttlTimers,  \* the timer kept for each key
    ttlExpiry,  \* when each key expires
    timers,     \* the timers armed in the event loop
    scan,       \* the loop of exportEntries
    now

data == <<cache, keySet, bloom>>
ttl == <<ttlTimers, ttlExpiry, timers>>
vars == <<cache, keySet, bloom, ttlTimers, ttlExpiry, timers, scan, now>>

Bits == UNION {Hash[k] : k \in Keys}

Timer == [key : Keys, due : Nat]

\* What is left to visit, the keys found stale and the entries collected.
NoScan == [left |-> {}, stale |-> {}, entries |-> << >>]
Scanning == scan # NoScan

TypeOK ==
    /\ CacheTypeOK(cache)
    /\ keySet \subseteq Keys
    /\ bloom \subseteq Bits
    /\ ttlTimers \in [Keys -> Timer \cup {Null}]
    /\ ttlExpiry \in [Keys -> Nat \cup {Null}]
    /\ timers \subseteq Timer
    /\ now \in Nat
    /\ scan.left \subseteq keySet /\ scan.stale \subseteq keySet

Init ==
    /\ cache = EmptyCache
    /\ keySet = {}
    /\ bloom = {}
    /\ ttlTimers = [k \in Keys |-> Null]
    /\ ttlExpiry = [k \in Keys |-> Null]
    /\ timers = {}
    /\ scan = NoScan
    /\ now = 0

-----------------------------------------------------------------------------
(* Helpers.                                                                *)

\* The filter's check: a key without bits is never found.
Check(k) == ~BloomFilter \/ (Hash[k] # {} /\ Hash[k] \subseteq bloom)

Filtered(k) == IF BloomFilter THEN bloom \cup Hash[k] ELSE bloom

Encode(v) == IF v \in DOMAIN Pack THEN Pack[v] ELSE v

Decode(s) == IF s \in DOMAIN Unpack THEN Unpack[s] ELSE s

\* The bridge returns null for a value that does not fit its buffer.
Readable(k) == k \in Cached(cache) /\ cache.entries[k].value \notin Wide

\* What get answers.
Answer(k) ==
    IF Check(k) /\ Readable(k) THEN Decode(cache.entries[k].value) ELSE Null

CanAccess(k) ==
    k \in Cached(cache) => cache.entries[k].access_count < MaxAccess

\* clearTTL stops the timer kept for the key, if there is one.
Stopped(k) == timers \ {ttlTimers[k]}

\* Wrong: the timer that was running is not stopped.
ArmAnother(k, delay) ==
    LET timer == [key |-> k, due |-> now + delay] IN
    /\ ttlExpiry' = [ttlExpiry EXCEPT ![k] = now + delay]
    /\ ttlTimers' = [ttlTimers EXCEPT ![k] = timer]
    /\ timers' = timers \cup {timer}

\* Wrong: clearTTL after the timer was stored, which stops the new timer.
ArmThenStop(k, delay) ==
    LET timer == [key |-> k, due |-> now + delay] IN
    /\ ttlExpiry' = [ttlExpiry EXCEPT ![k] = now + delay]
    /\ ttlTimers' = [ttlTimers EXCEPT ![k] = timer]
    /\ timers' = Stopped(k) \ {timer}

Arm(k, delay) ==
    LET timer == [key |-> k, due |-> now + delay] IN
    /\ ttlExpiry' = [ttlExpiry EXCEPT ![k] = now + delay]
    /\ ttlTimers' = [ttlTimers EXCEPT ![k] = timer]
    /\ timers' = Stopped(k) \cup {timer}

ForgetTTL(k) ==
    /\ ttlExpiry' = [ttlExpiry EXCEPT ![k] = Null]
    /\ ttlTimers' = [ttlTimers EXCEPT ![k] = Null]
    /\ timers' = Stopped(k)

\* Wrong: the engine has an entry that the service does not know.
StoreUnknown(c, k, stored) ==
    /\ cache' = Put(c, k, stored)
    /\ bloom' = Filtered(k)
    /\ UNCHANGED keySet

\* The common part of set and setRaw, for a cache that an earlier call of the
\* same method may have read.
Store(c, k, stored) ==
    /\ cache' = Put(c, k, stored)
    /\ keySet' = keySet \cup {k}
    /\ bloom' = Filtered(k)

Effective(time) == IF time = Undefined THEN DefaultTTL ELSE time

\* Only a positive time to live touches the timers.
SetFrom(c, k, v, time) ==
    /\ Store(c, k, Encode(v))
    /\ IF Effective(time) > 0 THEN Arm(k, Effective(time)) ELSE UNCHANGED ttl

\* Wrong: a delete takes the key's bits, which others share, off the filter.
DeleteFromFilter(c, k) ==
    /\ ForgetTTL(k)
    /\ cache' = Delete(c, k)
    /\ keySet' = IF k \in Cached(c) THEN keySet \ {k} ELSE keySet
    /\ bloom' = bloom \ Hash[k]

DeleteFrom(c, k) ==
    /\ ForgetTTL(k)
    /\ cache' = Delete(c, k)
    /\ keySet' = IF k \in Cached(c) THEN keySet \ {k} ELSE keySet
    /\ UNCHANGED bloom

-----------------------------------------------------------------------------
(* The methods.                                                            *)

Get(k) ==
    /\ ~Scanning
    /\ Check(k)
    /\ k \in Cached(cache) /\ CanAccess(k)
    /\ cache' = Read(cache, k)
    /\ UNCHANGED <<keySet, bloom, ttl, scan, now>>

\* Wrong: a set gets in between two steps of an export.
SetWhileExporting(k, v, time) ==
    /\ CanAccess(k)
    /\ SetFrom(cache, k, v, time)
    /\ UNCHANGED <<scan, now>>

Set(k, v, time) ==
    /\ ~Scanning
    /\ CanAccess(k)
    /\ SetFrom(cache, k, v, time)
    /\ UNCHANGED <<scan, now>>

DeleteKey(k) ==
    /\ ~Scanning
    /\ DeleteFrom(cache, k)
    /\ UNCHANGED <<scan, now>>

\* Neither incr nor casPut compresses, touches the timers or the known keys.
\* An overflow, which stops the process, is CacheEngine's IncrTrap.
Incr(k, delta) ==
    /\ ~Scanning
    /\ k \in Cached(cache) /\ CanAccess(k)
    /\ LET current == cache.entries[k].value IN
       /\ IsNumber(current)
       /\ IsNumber(current + delta)
       /\ cache' = Overwrite(cache, k, current + delta)
    /\ UNCHANGED <<keySet, bloom, ttl, scan, now>>

CasPut(k, v, expectedVersion) ==
    /\ ~Scanning
    /\ k \in Cached(cache) /\ CanAccess(k)
    /\ cache.entries[k].version = expectedVersion
    /\ cache' = Overwrite(cache, k, v)
    /\ UNCHANGED <<keySet, bloom, ttl, scan, now>>

\* touch looks only at the cache; a time to live of zero removes the expiry.
Touch(k, time) ==
    /\ ~Scanning
    /\ k \in Cached(cache)
    /\ IF time > 0 THEN Arm(k, time) ELSE ForgetTTL(k)
    /\ UNCHANGED <<data, scan, now>>

Clear ==
    /\ ~Scanning
    /\ cache' = EmptyCache
    /\ keySet' = {}
    /\ bloom' = {}
    /\ ttlTimers' = [k \in Keys |-> Null]
    /\ ttlExpiry' = [k \in Keys |-> Null]
    /\ timers' = timers \ {ttlTimers[k] : k \in Keys}
    /\ UNCHANGED <<scan, now>>

\* keys() forgets the keys that the engine evicted on its own.
ListKeys ==
    /\ ~Scanning
    /\ keySet' = keySet \cap Cached(cache)
    /\ UNCHANGED <<cache, bloom, ttl, scan, now>>

\* Wrong: restored keys are not added to the filter.
SetRawUnfiltered(k, stored) ==
    /\ ~Scanning
    /\ CanAccess(k)
    /\ cache' = Put(cache, k, stored)
    /\ keySet' = keySet \cup {k}
    /\ UNCHANGED <<bloom, ttl, scan, now>>

\* Wrong: restored keys are not known to the service.
SetRawUnknown(k, stored) ==
    /\ ~Scanning
    /\ CanAccess(k)
    /\ cache' = Put(cache, k, stored)
    /\ bloom' = Filtered(k)
    /\ UNCHANGED <<keySet, ttl, scan, now>>

SetRaw(k, stored) ==
    /\ ~Scanning
    /\ CanAccess(k)
    /\ Store(cache, k, stored)
    /\ UNCHANGED <<ttl, scan, now>>

\* The callback that set and touch leave with the event loop.
TimerFires(timer) ==
    /\ ~Scanning
    /\ timer.due <= now
    /\ cache' = Delete(cache, timer.key)
    /\ keySet' = keySet \ {timer.key}
    /\ ttlTimers' = [ttlTimers EXCEPT ![timer.key] = Null]
    /\ ttlExpiry' = [ttlExpiry EXCEPT ![timer.key] = Null]
    /\ timers' = timers \ {timer}
    /\ UNCHANGED <<bloom, scan, now>>

ExportEntries ==
    /\ ~Scanning
    /\ keySet # {}
    /\ \A k \in keySet : CanAccess(k)
    /\ scan' = [NoScan EXCEPT !.left = keySet]
    /\ UNCHANGED <<data, ttl, now>>

\* Its loop, in any order: a get of the engine, which counts and promotes.
ExportNext(k) ==
    /\ k \in scan.left
    /\ cache' = Lookup(cache, k)
    /\ scan' = [left |-> scan.left \ {k},
                stale |-> IF Readable(k) THEN scan.stale ELSE scan.stale \cup {k},
                entries |-> IF Readable(k)
                            THEN [x \in DOMAIN scan.entries \cup {k} |->
                                     IF x = k THEN cache.entries[k].value
                                     ELSE scan.entries[x]]
                            ELSE scan.entries]
    /\ UNCHANGED <<keySet, bloom, ttl, now>>

ExportReturns ==
    /\ Scanning
    /\ scan.left = {}
    /\ keySet' = keySet \ scan.stale
    /\ scan' = NoScan
    /\ UNCHANGED <<cache, bloom, ttl, now>>

Tick ==
    /\ ~Scanning
    /\ now < MaxTime
    /\ now' = now + 1
    /\ UNCHANGED <<data, ttl, scan>>

Next ==
    \/ \E k \in Keys : Get(k) \/ DeleteKey(k)
    \/ \E k \in Keys, v \in Payloads, time \in TTLs \cup {Undefined} :
          Set(k, v, time)
    \/ \E k \in Keys, delta \in Deltas : Incr(k, delta)
    \/ \E k \in Keys, v \in Payloads, n \in 1..MaxAccess : CasPut(k, v, n)
    \/ \E k \in Keys, time \in TTLs : Touch(k, time)
    \/ \E k \in Keys, stored \in Values : SetRaw(k, stored)
    \/ Clear
    \/ ListKeys
    \/ \E timer \in timers : TimerFires(timer)
    \/ ExportEntries
    \/ \E k \in scan.left : ExportNext(k)
    \/ ExportReturns
    \/ Tick

\* The event loop gets to its due timers after every task (strong fairness,
\* because a scan in progress keeps them waiting), and a scan ends.
Fairness ==
    /\ \A k \in Keys : SF_vars(\E timer \in timers :
                                  timer.key = k /\ TimerFires(timer))
    /\ WF_vars((\E k \in scan.left : ExportNext(k)) \/ ExportReturns)

Spec == Init /\ [][Next]_vars /\ Fairness

-----------------------------------------------------------------------------
(* Properties.                                                             *)

\* Every cached key is known, so that keys() lists it and a snapshot holds it:
\* each path that writes the engine or prunes keySet has to keep the two sides
\* together although the engine evicts without telling.
KnownKeys == Cached(cache) \subseteq keySet

\* get's comment: when the filter says no, the key is definitely not here.
NoFalseNegative == \A k \in Cached(cache) : Check(k)

\* Each key has at most one armed timer, the one kept for it, due when the
\* key's recorded expiry says: a timer left behind by a path that forgot to
\* stop it would later delete a value that has an expiry of its own, or none.
\* A set without a time to live leaves the expiry of the value before it, and
\* its timer, in force: the new value goes when the old one would have gone.
TimersMatch ==
    /\ timers = {ttlTimers[k] : k \in Keys} \ {Null}
    /\ \A k \in Keys :
          ttlTimers[k] = IF ttlExpiry[k] = Null THEN Null
                         ELSE [key |-> k, due |-> ttlExpiry[k]]

\* What exportEntries has collected when it returns is the cache's content at
\* that moment, although its own reads reordered the cache on the way.  It asks
\* that every value fits the bridge's buffer (Wide is empty): one that does not
\* is left out of the export, and its key is forgotten.
ExportIsComplete ==
    Scanning /\ scan.left = {} =>
        scan.entries = [k \in Cached(cache) |-> cache.entries[k].value]

\* No key outlives its expiry for ever: it is deleted, or given a later one.
ExpiredKeysGo ==
    \A k \in Keys :
        LET Expired == ttlExpiry[k] # Null /\ ttlExpiry[k] <= now
        IN  Expired ~> ~Expired

\* The values that a set gives back as they were: those compressed, and those
\* that do not begin with the marker.
Faithful == DOMAIN Pack \cup (Payloads \ DOMAIN Unpack)

\* The filter, the compression, the known keys and the timers cannot be told
\* from a plain map with deadlines: no answer changes but by a write of its
\* key, its removal or one eviction, and the deadline goes with the removal.
\* And get answers what was set, except for a short value that begins with the
\* marker of compression, which it decodes.
MapWithDeadlines ==
    INSTANCE ExpiringStore WITH store <- [k \in Keys |-> Answer(k)],
                                deadline <- ttlExpiry,
                                Absent <- Null, NoDeadline <- Null
ImplementsStore ==
    /\ MapWithDeadlines!Spec
    /\ [][\A k \in Keys, v \in Faithful, time \in TTLs \cup {Undefined} :
             Set(k, v, time) => Answer(k)' \in {v, Null}]_vars

\* configuration.html: a default time to live of zero is no expiry.  A set
\* without one leaves a key that does not expire.
ZeroMeansNoExpiry ==
    [][\A k \in Keys, v \in Payloads, time \in TTLs \cup {Undefined} :
          Set(k, v, time) /\ Effective(time) = 0 => ttlExpiry'[k] = Null]_vars
=============================================================================
