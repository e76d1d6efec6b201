---------------------------- MODULE CacheEngine ----------------------------
(***************************************************************************)
(* What the native cache library promises: every exported call that        *)
(* changes state as one atomic step.  The caller is a single thread and    *)
(* the calls are synchronous, so no two of them interleave.  Module        *)
(* LinkedCache is the implementation, with its pointers and loops.         *)
(***************************************************************************)
EXTENDS CacheOps

CONSTANTS
    KeyLen, ValueLen,  \* lengths in bytes
    Deltas,            \* the deltas passed to incr
    MaxAccess,         \* bound on the accesses of one entry
    MaxPuts            \* bound on the puts counted

ASSUME LenAssumption == /\ KeyLen \in [Keys -> Nat]
                        /\ ValueLen \in [Values -> Nat]
ASSUME DeltasAssumption == Deltas \subseteq Int

VARIABLES
    cache,        \* the map and the list
    stats,        \* CacheStats, less the counters of lookups and failed swaps
    memory_bytes  \* the field of CacheStats that is not a counter

vars == <<cache, stats, memory_bytes>>

Counters == {"evictions", "puts", "deletes", "cas_hits", "current_size"}

\* That memory_bytes never goes below zero is MemoryExact.
TypeOK ==
    /\ CacheTypeOK(cache)
    /\ stats \in [Counters -> Nat]
    /\ memory_bytes \in Int

Init ==
    /\ cache = EmptyCache
    /\ stats = [c \in Counters |-> 0]
    /\ memory_bytes = 0

-----------------------------------------------------------------------------

\* The counters with those in F increased.
Bump(F) == [c \in Counters |-> stats[c] + (IF c \in F THEN 1 ELSE 0)]

\* The bytes that an entry takes.
Size(c, k) == KeyLen[k] + ValueLen[c.entries[k].value]

CanAccess(k) ==
    k \in Cached(cache) => cache.entries[k].access_count < MaxAccess

CanPut == stats["puts"] < MaxPuts

\* Wrong: the length of the old value is not given back.
ResizedUpwards(k, v) == memory_bytes + ValueLen[v]

\* memory_bytes when k's value becomes v.
Resized(k, v) ==
    memory_bytes - ValueLen[cache.entries[k].value] + ValueLen[v]

PutExisting(k, v) ==
    /\ k \in Cached(cache)
    /\ CanAccess(k)
    /\ CanPut
    /\ cache' = Overwrite(cache, k, v)
    /\ stats' = Bump({"puts"})
    /\ memory_bytes' = Resized(k, v)

PutNew(k, v) ==
    /\ k \notin Cached(cache)
    /\ ~Full(cache)
    /\ CanPut
    /\ cache' = Insert(cache, k, v)
    /\ stats' = Bump({"puts", "current_size"})
    /\ memory_bytes' = memory_bytes + KeyLen[k] + ValueLen[v]

\* The tail makes room; current_size goes down and up again.
PutEvicting(k, v) ==
    /\ k \notin Cached(cache)
    /\ Full(cache)
    /\ CanPut
    /\ cache' = Insert(cache, k, v)
    /\ stats' = Bump({"puts", "evictions"})
    /\ memory_bytes' = memory_bytes - Size(cache, Victim(cache))
                                     + KeyLen[k] + ValueLen[v]

\* A lookup that misses only counts the miss.
GetCall(k) ==
    /\ k \in Cached(cache)
    /\ CanAccess(k)
    /\ cache' = Read(cache, k)
    /\ UNCHANGED <<stats, memory_bytes>>

\* Wrong: a swap that counts a hit but not a put.
CasPutUncounted(k, v, expected_version) ==
    /\ k \in Cached(cache)
    /\ expected_version = cache.entries[k].version
    /\ CanAccess(k)
    /\ cache' = Overwrite(cache, k, v)
    /\ stats' = Bump({"cas_hits"})
    /\ memory_bytes' = Resized(k, v)

\* A compare-and-swap with the current version; any other changes nothing.
CasPutCall(k, v, expected_version) ==
    /\ k \in Cached(cache)
    /\ expected_version = cache.entries[k].version
    /\ CanAccess(k)
    /\ CanPut
    /\ cache' = Overwrite(cache, k, v)
    /\ stats' = Bump({"puts", "cas_hits"})
    /\ memory_bytes' = Resized(k, v)

\* Wrong: incr rewrites the value under the same version.
IncrKeepingVersion(k, delta) ==
    /\ k \in Cached(cache)
    /\ CanAccess(k)
    /\ LET current == cache.entries[k].value IN
       /\ IsNumber(current)
       /\ IsNumber(current + delta)
       /\ cache' = Replace(cache, k, [cache.entries[k] EXCEPT
                                         !.value = current + delta,
                                         !.access_count = @ + 1])
       /\ memory_bytes' = Resized(k, current + delta)
    /\ UNCHANGED stats

\* A sum outside the integers' range is IncrTrap's.
IncrCall(k, delta) ==
    /\ k \in Cached(cache)
    /\ CanAccess(k)
    /\ LET current == cache.entries[k].value IN
       /\ IsNumber(current)
       /\ IsNumber(current + delta)
       /\ cache' = Overwrite(cache, k, current + delta)
       /\ memory_bytes' = Resized(k, current + delta)
    /\ UNCHANGED stats

\* Safe builds stop the process on an overflow; it restarts with an empty cache.
IncrTrap(k, delta) ==
    /\ k \in Cached(cache)
    /\ LET current == cache.entries[k].value IN
       /\ IsNumber(current)
       /\ ~IsNumber(current + delta)
    /\ cache' = EmptyCache
    /\ stats' = [c \in Counters |-> 0]
    /\ memory_bytes' = 0

DeleteCall(k) ==
    /\ k \in Cached(cache)
    /\ cache' = Delete(cache, k)
    /\ stats' = [Bump({"deletes"}) EXCEPT !["current_size"] = @ - 1]
    /\ memory_bytes' = memory_bytes - Size(cache, k)

\* The counters of past events survive a clear.
ClearCall ==
    /\ cache' = EmptyCache
    /\ stats' = [stats EXCEPT !["current_size"] = 0]
    /\ memory_bytes' = 0

Next ==
    \/ \E k \in Keys, v \in Values :
          PutExisting(k, v) \/ PutNew(k, v) \/ PutEvicting(k, v)
    \/ \E k \in Keys : GetCall(k)
    \/ \E k \in Keys, v \in Values, n \in 1..MaxAccess : CasPutCall(k, v, n)
    \/ \E k \in Keys, d \in Deltas : IncrCall(k, d)
    \/ \E k \in Keys, d \in Deltas : IncrTrap(k, d)
    \/ \E k \in Keys : DeleteCall(k)
    \/ ClearCall

Spec == Init /\ [][Next]_vars

-----------------------------------------------------------------------------
(* Properties.                                                             *)

\* The map, the list and current_size agree after every call, and the cache
\* never holds more than max_entries: a call that updated one of them on only
\* some of its paths (an evict that forgets the map, a delete that forgets
\* the list) leaves an entry that can never be evicted or is evicted twice.
Consistent ==
    /\ WellFormed(cache)
    /\ stats["current_size"] = Len(cache.order)
    /\ Len(cache.order) <= MaxEntries

\* memory_bytes, kept up to date by adding and subtracting lengths on seven
\* paths, is the exact size of the keys and values cached: a path that
\* subtracted the wrong length would make the unsigned counter underflow.
MemoryExact ==
    memory_bytes = SumFunction([k \in Cached(cache) |-> Size(cache, k)])

\* Every entry that is cached, was evicted or was deleted came from a put of
\* its own, and so did every successful compare-and-swap: the counters that
\* /stats reports cannot drift apart however the calls are mixed.
PutsAccountForEntries ==
    stats["current_size"] + stats["evictions"] + stats["deletes"]
        + stats["cas_hits"] <= stats["puts"]

\* A version identifies one value of an entry: while the entry stays cached,
\* its value changes only together with its version, and by one at a time.
\* A compare-and-swap that succeeds therefore replaces the value its caller
\* read, as long as the entry was not removed and created again meanwhile.
VersionNamesValue ==
    [][\A k \in Cached(cache) \cap Cached(cache)' :
          LET old == cache.entries[k]
              new == cache'.entries[k]
          IN  /\ new.value # old.value => new.version = old.version + 1
              /\ new.version \in {old.version, old.version + 1}]_vars

\* put's eviction takes exactly the entry at the tail, and only from a cache
\* that is full.
OnlyTheTailIsEvicted ==
    [][stats'["evictions"] > stats["evictions"] =>
          /\ Cached(cache) \ Cached(cache)' = {cache.order[Len(cache.order)]}
          /\ Len(cache.order) = MaxEntries]_vars
=============================================================================
