------------------------- MODULE CacheEngine_proofs -------------------------
(***************************************************************************)
(* Theorems about the cache engine, for all constants: its map, its list,  *)
(* its counters and its memory agree, and what a call may do to the        *)
(* entries it does not name; and about clients that update an entry of it  *)
(* optimistically.                                                         *)
(***************************************************************************)
EXTENDS CacheEngine, CasClients, CacheOps_proofs

\* The inductive invariant.  PutsAccountForEntries needs that current_size is
\* at least one when delete takes one off it, which is Consistent's.
IInv == TypeOK /\ Consistent /\ PutsAccountForEntries

LEMMA InitInv == Init => IInv
  <1> SUFFICES ASSUME Init PROVE IInv
    OBVIOUS
  <1>1. TypeOK
    BY EmptyCacheOK DEF Init, TypeOK
  <1>2. Consistent /\ PutsAccountForEntries
    BY EmptyCacheOK, MaxEntriesAssumption
    DEF Init, Consistent, PutsAccountForEntries, Counters
  <1>3. QED
    BY <1>1, <1>2 DEF IInv

LEMMA SizeIsInt ==
    ASSUME NEW c, CacheTypeOK(c), NEW k \in Cached(c)
    PROVE  Size(c, k) \in Nat /\ ValueLen[c.entries[k].value] \in Nat
  <1>1. k \in Keys /\ c.entries[k].value \in Values
    BY DEF CacheTypeOK, Entry
  <1>2. QED
    BY <1>1, LenAssumption DEF Size

\* The sums of PutsAccountForEntries after each call.
LEMMA CountersAddUp ==
    ASSUME NEW a \in Nat, NEW b \in Nat, NEW c \in Nat, NEW d \in Nat,
           NEW e \in Nat, a + b + c + d <= e
    PROVE  /\ a + b + c + d <= e + 1
           /\ a + b + c + (d + 1) <= e + 1
           /\ (a + 1) + b + c + d <= e + 1
           /\ a + (b + 1) + c + d <= e + 1
           /\ (a - 1) + b + (c + 1) + d <= e
  OBVIOUS

\* What Bump does to each counter.
LEMMA BumpCounts ==
    ASSUME stats \in [Counters -> Nat], NEW F
    PROVE  /\ Bump(F) \in [Counters -> Nat]
           /\ \A c \in Counters :
                 /\ stats[c] \in Nat
                 /\ Bump(F)[c] = IF c \in F THEN stats[c] + 1 ELSE stats[c]
  BY DEF Bump

LEMMA NextInv == IInv /\ [Next]_vars => IInv'
  <1> SUFFICES ASSUME IInv, [Next]_vars PROVE IInv'
    OBVIOUS
  <1>1. /\ CacheTypeOK(cache)
        /\ WellFormed(cache)
        /\ stats \in [Counters -> Nat]
        /\ memory_bytes \in Int
        /\ stats["current_size"] = Len(cache.order)
        /\ Len(cache.order) <= MaxEntries
        /\ Len(cache.order) \in Nat
        /\ stats["current_size"] + stats["evictions"] + stats["deletes"] + stats["cas_hits"]
              <= stats["puts"]
    BY DEF IInv, TypeOK, Consistent, PutsAccountForEntries, CacheTypeOK
  <1>nat. /\ stats["current_size"] \in Nat
        /\ stats["evictions"] \in Nat
        /\ stats["deletes"] \in Nat
        /\ stats["cas_hits"] \in Nat
        /\ stats["puts"] \in Nat
    BY <1>1 DEF Counters
  <1>sum. stats["current_size"] + stats["evictions"] + stats["deletes"]
            + stats["cas_hits"] <= stats["puts"]
    BY <1>1
  <1> DEFINE CacheKept == /\ CacheTypeOK(cache')
                          /\ WellFormed(cache')
                          /\ Len(cache'.order) <= MaxEntries
             StatsKept == /\ stats' \in [Counters -> Nat]
                          /\ memory_bytes' \in Int
                          /\ stats'["current_size"] = Len(cache'.order)
                          /\ stats'["current_size"] + stats'["evictions"]
                                + stats'["deletes"] + stats'["cas_hits"]
                                   <= stats'["puts"]
  <1>2. SUFFICES CacheKept /\ StatsKept
    BY DEF IInv, TypeOK, Consistent, PutsAccountForEntries
  <1>3. ASSUME NEW k \in Keys, NEW v \in Values, PutExisting(k, v)
        PROVE  CacheKept /\ StatsKept
    <2>1. CacheKept /\ Len(cache'.order) = Len(cache.order)
      BY <1>1, <1>3, OverwriteKeeps DEF PutExisting
    <2>2. Resized(k, v) \in Int
      BY <1>1, <1>3, SizeIsInt, LenAssumption, SMTT(30) DEF PutExisting, Resized
    <2>3. StatsKept
      <3>1. stats' = Bump({"puts"}) /\ memory_bytes' \in Int
        BY <1>3, <2>2 DEF PutExisting
      <3>2. /\ stats' \in [Counters -> Nat]
            /\ stats'["current_size"] = stats["current_size"]
            /\ stats'["evictions"] = stats["evictions"]
            /\ stats'["deletes"] = stats["deletes"]
            /\ stats'["cas_hits"] = stats["cas_hits"]
            /\ stats'["puts"] = stats["puts"] + 1
        BY <1>1, <3>1, BumpCounts DEF Counters
      <3>3. stats'["current_size"] = Len(cache'.order)
        BY <1>1, <2>1, <3>2
      <3>4. stats'["current_size"] + stats'["evictions"] + stats'["deletes"]
               + stats'["cas_hits"] <= stats'["puts"]
        BY <1>nat, <1>sum, <3>2, CountersAddUp
      <3>5. QED
        BY <3>1, <3>2, <3>3, <3>4
    <2>4. QED
      BY <2>1, <2>3
  <1>4. ASSUME NEW k \in Keys, NEW v \in Values, PutNew(k, v)
        PROVE  CacheKept /\ StatsKept
    <2>1. CacheKept /\ Len(cache'.order) = Len(cache.order) + 1
      BY <1>1, <1>4, InsertAdds DEF PutNew
    <2>2. StatsKept
      <3>1. stats' = Bump({"puts", "current_size"}) /\ memory_bytes' \in Int
        BY <1>1, <1>4, LenAssumption DEF PutNew
      <3>2. /\ stats' \in [Counters -> Nat]
            /\ stats'["current_size"] = stats["current_size"] + 1
            /\ stats'["evictions"] = stats["evictions"]
            /\ stats'["deletes"] = stats["deletes"]
            /\ stats'["cas_hits"] = stats["cas_hits"]
            /\ stats'["puts"] = stats["puts"] + 1
        BY <1>1, <3>1, BumpCounts DEF Counters
      <3>3. stats'["current_size"] = Len(cache'.order)
        BY <1>1, <2>1, <3>2
      <3>4. stats'["current_size"] + stats'["evictions"] + stats'["deletes"]
               + stats'["cas_hits"] <= stats'["puts"]
        BY <1>nat, <1>sum, <3>2, CountersAddUp
      <3>5. QED
        BY <3>1, <3>2, <3>3, <3>4
    <2>3. QED
      BY <2>1, <2>2
  <1>5. ASSUME NEW k \in Keys, NEW v \in Values, PutEvicting(k, v)
        PROVE  CacheKept /\ StatsKept
    <2>1. CacheKept /\ Len(cache'.order) = Len(cache.order)
      BY <1>1, <1>5, InsertAdds DEF PutEvicting
    <2>2. Size(cache, Victim(cache)) \in Nat
      BY <1>1, <1>5, VictimIsCached, SizeIsInt DEF PutEvicting
    <2>3. Len(cache.order) >= 1
      BY <1>5, MaxEntriesAssumption DEF PutEvicting, Full
    <2>4. StatsKept
      <3>1. stats' = Bump({"puts", "evictions"}) /\ memory_bytes' \in Int
        BY <1>1, <1>5, <2>2, LenAssumption DEF PutEvicting
      <3>2. /\ stats' \in [Counters -> Nat]
            /\ stats'["current_size"] = stats["current_size"]
            /\ stats'["evictions"] = stats["evictions"] + 1
            /\ stats'["deletes"] = stats["deletes"]
            /\ stats'["cas_hits"] = stats["cas_hits"]
            /\ stats'["puts"] = stats["puts"] + 1
        BY <1>1, <3>1, BumpCounts DEF Counters
      <3>3. stats'["current_size"] = Len(cache'.order)
        BY <1>1, <2>1, <3>2
      <3>4. stats'["current_size"] + stats'["evictions"] + stats'["deletes"]
               + stats'["cas_hits"] <= stats'["puts"]
        BY <1>nat, <1>sum, <3>2, CountersAddUp
      <3>5. QED
        BY <3>1, <3>2, <3>3, <3>4
    <2>5. QED
      BY <2>1, <2>4
  <1>6. ASSUME NEW k \in Keys, GetCall(k)
        PROVE  CacheKept /\ StatsKept
    BY <1>1, <1>6, ReadKeeps DEF GetCall
  <1>7. ASSUME NEW k \in Keys, NEW v \in Values, NEW n \in 1..MaxAccess,
               CasPutCall(k, v, n)
        PROVE  CacheKept /\ StatsKept
    <2>1. CacheKept /\ Len(cache'.order) = Len(cache.order)
      BY <1>1, <1>7, OverwriteKeeps DEF CasPutCall
    <2>2. Resized(k, v) \in Int
      BY <1>1, <1>7, SizeIsInt, LenAssumption DEF CasPutCall, Resized
    <2>3. StatsKept
      <3>1. stats' = Bump({"puts", "cas_hits"}) /\ memory_bytes' \in Int
        BY <1>7, <2>2 DEF CasPutCall
      <3>2. /\ stats' \in [Counters -> Nat]
            /\ stats'["current_size"] = stats["current_size"]
            /\ stats'["evictions"] = stats["evictions"]
            /\ stats'["deletes"] = stats["deletes"]
            /\ stats'["cas_hits"] = stats["cas_hits"] + 1
            /\ stats'["puts"] = stats["puts"] + 1
        BY <1>1, <3>1, BumpCounts DEF Counters
      <3>3. stats'["current_size"] = Len(cache'.order)
        BY <1>1, <2>1, <3>2
      <3>4. stats'["current_size"] + stats'["evictions"] + stats'["deletes"]
               + stats'["cas_hits"] <= stats'["puts"]
        BY <1>nat, <1>sum, <3>2, CountersAddUp
      <3>5. QED
        BY <3>1, <3>2, <3>3, <3>4
    <2>4. QED
      BY <2>1, <2>3
  <1>8. ASSUME NEW k \in Keys, NEW d \in Deltas, IncrCall(k, d)
        PROVE  CacheKept /\ StatsKept
    <2> DEFINE sum == cache.entries[k].value + d
    <2>1. sum \in Values
      BY <1>8, NumbersAssumption DEF IncrCall, IsNumber
    <2> HIDE DEF sum
    <2>2. /\ k \in Cached(cache)
          /\ cache' = Overwrite(cache, k, sum)
          /\ stats' = stats
          /\ memory_bytes' = Resized(k, sum)
      BY <1>8 DEF IncrCall, sum
    <2>3. CacheKept /\ Len(cache'.order) = Len(cache.order)
      BY <1>1, <2>1, <2>2, OverwriteKeeps
    <2>4. Resized(k, sum) \in Int
      BY <1>1, <2>1, <2>2, SizeIsInt, LenAssumption, SMTT(30) DEF Resized
    <2>5. StatsKept
      BY <1>1, <2>2, <2>3, <2>4
    <2>6. QED
      BY <2>3, <2>5
  <1>9. ASSUME NEW k \in Keys, NEW d \in Deltas, IncrTrap(k, d)
        PROVE  CacheKept /\ StatsKept
    BY <1>9, EmptyCacheOK, MaxEntriesAssumption DEF IncrTrap, Counters
  <1>10. ASSUME NEW k \in Keys, DeleteCall(k)
         PROVE  CacheKept /\ StatsKept
    <2>1. /\ k \in Cached(cache)
          /\ cache' = Unlink(cache, k)
      BY <1>10 DEF DeleteCall, Delete
    <2>2. /\ CacheTypeOK(cache')
          /\ WellFormed(cache')
          /\ Len(cache'.order) = Len(cache.order) - 1
      BY <1>1, <2>1, UnlinkRemoves
    <2>3. Len(cache.order) >= 1
      <3>1. Len(cache'.order) \in Nat
        BY <2>2 DEF CacheTypeOK
      <3>2. QED
        BY <1>1, <2>2, <3>1
    <2>4. CacheKept
      BY <1>1, <2>2, MaxEntriesAssumption
    <2>5. Size(cache, k) \in Nat
      BY <1>1, <2>1, SizeIsInt
    <2>6. StatsKept
      <3> DEFINE bumped == Bump({"deletes"})
      <3>1. /\ stats' = [bumped EXCEPT !["current_size"] = @ - 1]
            /\ memory_bytes' \in Int
        BY <1>1, <1>10, <2>5 DEF DeleteCall
      <3>2. /\ bumped \in [Counters -> Nat]
            /\ bumped["current_size"] = stats["current_size"]
            /\ bumped["evictions"] = stats["evictions"]
            /\ bumped["deletes"] = stats["deletes"] + 1
            /\ bumped["cas_hits"] = stats["cas_hits"]
            /\ bumped["puts"] = stats["puts"]
        BY <1>1, BumpCounts DEF Counters
      <3> HIDE DEF bumped
      <3>3. /\ stats' \in [Counters -> Nat]
            /\ stats'["current_size"] = stats["current_size"] - 1
            /\ stats'["evictions"] = stats["evictions"]
            /\ stats'["deletes"] = stats["deletes"] + 1
            /\ stats'["cas_hits"] = stats["cas_hits"]
            /\ stats'["puts"] = stats["puts"]
        BY <1>1, <2>3, <3>1, <3>2 DEF Counters
      <3>4. stats'["current_size"] = Len(cache'.order)
        BY <1>1, <2>2, <3>3
      <3>5. stats'["current_size"] + stats'["evictions"] + stats'["deletes"]
               + stats'["cas_hits"] <= stats'["puts"]
        BY <1>nat, <1>sum, <3>3, CountersAddUp
      <3>6. QED
        BY <3>1, <3>3, <3>4, <3>5
    <2>7. QED
      BY <2>4, <2>6
  <1>11. ASSUME ClearCall PROVE CacheKept /\ StatsKept
    <2>1. CacheKept /\ Len(cache'.order) = 0
      BY <1>11, EmptyCacheOK, MaxEntriesAssumption DEF ClearCall
    <2>2. /\ stats' \in [Counters -> Nat]
          /\ memory_bytes' \in Int
          /\ stats'["current_size"] = 0
          /\ stats'["evictions"] = stats["evictions"]
          /\ stats'["deletes"] = stats["deletes"]
          /\ stats'["cas_hits"] = stats["cas_hits"]
          /\ stats'["puts"] = stats["puts"]
      BY <1>1, <1>11 DEF ClearCall, Counters
    <2>3. 0 + stats["evictions"] + stats["deletes"] + stats["cas_hits"]
             <= stats["puts"]
      BY <1>nat, <1>sum
    <2>4. QED
      BY <2>1, <2>2, <2>3
  <1>12. ASSUME UNCHANGED vars PROVE CacheKept /\ StatsKept
    BY <1>1, <1>12 DEF vars
  <1>13. QED
    BY <1>3, <1>4, <1>5, <1>6, <1>7, <1>8, <1>9, <1>10, <1>11, <1>12 DEF Next

THEOREM InvInductive == Spec => []IInv
  BY InitInv, NextInv, PTL DEF Spec

\* Type correctness of the engine: every state is a cache of typed entries
\* and counters that never go below zero (memory_bytes aside).
THEOREM TypeCorrect == Spec => []TypeOK
  BY InvInductive, PTL DEF IInv

\* The map, the list and current_size agree after every call, and the cache
\* never exceeds max_entries, for every policy and every size (cache.zig put,
\* casPut, incr, delete, clear, evictOne).
THEOREM EngineConsistent == Spec => []Consistent
  BY InvInductive, PTL DEF IInv

\* The counters of /stats add up: cached, evicted and deleted entries and
\* compare-and-swaps never outnumber the puts.
THEOREM EngineAccounts == Spec => []PutsAccountForEntries
  BY InvInductive, PTL DEF IInv

-----------------------------------------------------------------------------
(* The bytes in use.                                                       *)

LEMMA LengthsOK == Lengths(KeyLen, ValueLen)
  BY LenAssumption DEF Lengths

LEMMA NextKeepsMemory ==
    ASSUME IInv, memory_bytes = BytesUsed(cache, KeyLen, ValueLen), [Next]_vars
    PROVE  memory_bytes' = BytesUsed(cache', KeyLen, ValueLen)
  <1>1. /\ CacheTypeOK(cache)
        /\ WellFormed(cache)
        /\ Len(cache.order) <= MaxEntries
    BY DEF IInv, TypeOK, Consistent
  <1>2. ASSUME NEW k \in Keys, NEW v \in Values, k \in Cached(cache),
               cache' = Overwrite(cache, k, v), memory_bytes' = Resized(k, v)
        PROVE  memory_bytes' = BytesUsed(cache', KeyLen, ValueLen)
    BY <1>1, <1>2, BytesOfOverwrite, LengthsOK DEF Resized
  <1>3. ASSUME NEW k \in Keys, NEW v \in Values, PutNew(k, v)
        PROVE  memory_bytes' = BytesUsed(cache', KeyLen, ValueLen)
    BY <1>1, <1>3, BytesOfInsert, LengthsOK DEF PutNew
  <1>4. ASSUME NEW k \in Keys, NEW v \in Values, PutEvicting(k, v)
        PROVE  memory_bytes' = BytesUsed(cache', KeyLen, ValueLen)
    BY <1>1, <1>4, BytesOfInsert, LengthsOK DEF PutEvicting, Size
  <1>5. ASSUME NEW k \in Keys, GetCall(k)
        PROVE  memory_bytes' = BytesUsed(cache', KeyLen, ValueLen)
    BY <1>1, <1>5, BytesOfRead, LengthsOK DEF GetCall
  <1>6. ASSUME NEW k \in Keys, NEW d \in Deltas, IncrCall(k, d)
        PROVE  memory_bytes' = BytesUsed(cache', KeyLen, ValueLen)
    <2>1. /\ k \in Cached(cache)
          /\ cache.entries[k].value + d \in Values
          /\ cache' = Overwrite(cache, k, cache.entries[k].value + d)
          /\ memory_bytes' = Resized(k, cache.entries[k].value + d)
      BY <1>6, NumbersAssumption DEF IncrCall, IsNumber
    <2>2. QED
      BY <1>2, <2>1
  <1>7. ASSUME NEW k \in Keys, DeleteCall(k)
        PROVE  memory_bytes' = BytesUsed(cache', KeyLen, ValueLen)
    BY <1>1, <1>7, BytesOfUnlink, LengthsOK DEF DeleteCall, Delete, Size
  <1>8. ASSUME cache' = EmptyCache, memory_bytes' = 0
        PROVE  memory_bytes' = BytesUsed(cache', KeyLen, ValueLen)
    BY <1>8, BytesOfEmpty
  <1>9. ASSUME UNCHANGED vars PROVE memory_bytes' = BytesUsed(cache', KeyLen, ValueLen)
    BY <1>9 DEF vars
  <1>10. QED
    BY <1>2, <1>3, <1>4, <1>5, <1>6, <1>7, <1>8, <1>9
    DEF Next, PutExisting, CasPutCall, IncrTrap, ClearCall

\* MemoryExact, of every path that adds or subtracts a length (cache.zig put,
\* casPut, incr, delete, evictOne, clear): memory_bytes is the size of what is
\* cached, and so it never goes below zero.
THEOREM MemoryStaysExact == Spec => [](MemoryExact /\ memory_bytes \in Nat)
  <1>1. MemoryExact <=> memory_bytes = BytesUsed(cache, KeyLen, ValueLen)
    BY DEF MemoryExact, BytesUsed, Sizes, Size
  <1>2. Init => MemoryExact
    BY <1>1, BytesOfEmpty DEF Init
  <1>3. IInv /\ MemoryExact /\ [Next]_vars => MemoryExact'
    <2>1. MemoryExact' <=> memory_bytes' = BytesUsed(cache', KeyLen, ValueLen)
      BY DEF MemoryExact, BytesUsed, Sizes, Size, Cached
    <2>2. QED
      BY <1>1, <2>1, NextKeepsMemory
  <1>4. IInv /\ MemoryExact => memory_bytes \in Nat
    BY <1>1, SizesAreNat, SumIsNat, LengthsOK
    DEF BytesUsed, SumFunction, IInv, TypeOK, Consistent
  <1>5. QED
    BY <1>2, <1>3, <1>4, InvInductive, PTL DEF Spec

-----------------------------------------------------------------------------
(* The action properties.                                                  *)

\* The body of VersionNamesValue for one entry.
SameOrNewVersion(old, new) ==
    /\ new.value # old.value => new.version = old.version + 1
    /\ new.version \in {old.version, old.version + 1}

LEMMA NextKeepsVersions ==
    ASSUME IInv, [Next]_vars,
           NEW x \in Cached(cache) \cap Cached(cache')
    PROVE  SameOrNewVersion(cache.entries[x], cache'.entries[x])
  <1>1. /\ CacheTypeOK(cache)
        /\ WellFormed(cache)
        /\ Len(cache.order) <= MaxEntries
    BY DEF IInv, TypeOK, Consistent
  <1>2. ASSUME cache'.entries[x] = cache.entries[x]
        PROVE  SameOrNewVersion(cache.entries[x], cache'.entries[x])
    BY <1>2 DEF SameOrNewVersion
  <1>3. ASSUME NEW k \in Keys, NEW v \in Values, k \in Cached(cache),
               cache' = Overwrite(cache, k, v)
        PROVE  SameOrNewVersion(cache.entries[x], cache'.entries[x])
    <2>1. CASE x = k
      BY <1>1, <1>3, <2>1, OverwriteKeeps DEF SameOrNewVersion
    <2>2. CASE x # k
      BY <1>1, <1>2, <1>3, <2>2, OverwriteKeeps
    <2>3. QED
      BY <2>1, <2>2
  <1>4. ASSUME NEW k \in Keys, NEW v \in Values, k \notin Cached(cache),
               cache' = Insert(cache, k, v)
        PROVE  SameOrNewVersion(cache.entries[x], cache'.entries[x])
    BY <1>1, <1>2, <1>4, InsertAdds
  <1>5. ASSUME NEW k \in Keys, GetCall(k)
        PROVE  SameOrNewVersion(cache.entries[x], cache'.entries[x])
    BY <1>1, <1>5, ReadKeeps DEF GetCall, SameOrNewVersion
  <1>6. ASSUME NEW k \in Keys, NEW d \in Deltas, IncrCall(k, d)
        PROVE  SameOrNewVersion(cache.entries[x], cache'.entries[x])
    <2>1. /\ k \in Cached(cache)
          /\ cache.entries[k].value + d \in Values
          /\ cache' = Overwrite(cache, k, cache.entries[k].value + d)
      BY <1>6, NumbersAssumption DEF IncrCall, IsNumber
    <2>2. QED
      BY <1>3, <2>1
  <1>7. ASSUME NEW k \in Keys, DeleteCall(k)
        PROVE  SameOrNewVersion(cache.entries[x], cache'.entries[x])
    <2>1. k \in Cached(cache) /\ cache' = Unlink(cache, k)
      BY <1>7 DEF DeleteCall, Delete
    <2>2. cache'.entries[x] = cache.entries[x]
      BY <1>1, <2>1, UnlinkRemoves
    <2>3. QED
      BY <1>2, <2>2
  <1>8. ASSUME cache' = EmptyCache
        PROVE  SameOrNewVersion(cache.entries[x], cache'.entries[x])
    BY <1>8 DEF EmptyCache, Cached
  <1>9. ASSUME UNCHANGED vars
        PROVE  SameOrNewVersion(cache.entries[x], cache'.entries[x])
    BY <1>2, <1>9 DEF vars
  <1>10. QED
    BY <1>3, <1>4, <1>5, <1>6, <1>7, <1>8, <1>9
    DEF Next, PutExisting, PutNew, PutEvicting, CasPutCall, IncrTrap, ClearCall

LEMMA NextEvictsTheTail ==
    ASSUME IInv, [Next]_vars, stats'["evictions"] > stats["evictions"]
    PROVE  /\ Cached(cache) \ Cached(cache') = {cache.order[Len(cache.order)]}
           /\ Len(cache.order) = MaxEntries
  <1>1. /\ CacheTypeOK(cache)
        /\ WellFormed(cache)
        /\ Len(cache.order) <= MaxEntries
        /\ Len(cache.order) \in Nat
        /\ stats \in [Counters -> Nat]
        /\ stats["evictions"] \in Nat
    BY DEF IInv, TypeOK, Consistent, CacheTypeOK, Counters
  <1>2. PICK k \in Keys, v \in Values : PutEvicting(k, v)
    <2>1. ASSUME NEW F \in SUBSET {"puts", "cas_hits", "current_size"},
                 stats' = Bump(F)
          PROVE  FALSE
      <3>1. stats'["evictions"] = stats["evictions"]
        BY <1>1, <2>1, BumpCounts DEF Counters
      <3>2. QED
        BY <1>1, <3>1
    <2>2. ASSUME NEW k \in Keys, NEW v \in Values,
                 PutExisting(k, v) \/ PutNew(k, v)
          PROVE  FALSE
      BY <2>1, <2>2 DEF PutExisting, PutNew
    <2>3. ASSUME NEW k \in Keys, NEW v \in Values, NEW n \in 1..MaxAccess,
                 CasPutCall(k, v, n)
          PROVE  FALSE
      BY <2>1, <2>3 DEF CasPutCall
    <2>4. ASSUME UNCHANGED stats PROVE FALSE
      BY <1>1, <2>4
    <2>5. ASSUME NEW k \in Keys, NEW d \in Deltas, IncrTrap(k, d) PROVE FALSE
      BY <1>1, <2>5 DEF IncrTrap, Counters
    <2>6. ASSUME NEW k \in Keys, DeleteCall(k) PROVE FALSE
      <3>1. /\ Bump({"deletes"}) \in [Counters -> Nat]
            /\ Bump({"deletes"})["evictions"] = stats["evictions"]
        BY <1>1, BumpCounts DEF Counters
      <3>2. stats'["evictions"] = Bump({"deletes"})["evictions"]
        BY <2>6, <3>1 DEF DeleteCall, Counters
      <3>3. QED
        BY <1>1, <3>1, <3>2
    <2>7. ASSUME ClearCall PROVE FALSE
      BY <1>1, <2>7 DEF ClearCall, Counters
    <2>8. QED
      BY <2>2, <2>3, <2>4, <2>5, <2>6, <2>7
      DEF Next, GetCall, IncrCall, vars
  <1>3. k \notin Cached(cache) /\ Full(cache) /\ cache' = Insert(cache, k, v)
    BY <1>2 DEF PutEvicting
  <1>4. Cached(cache') = (Cached(cache) \ {Victim(cache)}) \cup {k}
    BY <1>1, <1>3, InsertAdds
  <1>5. Victim(cache) \in Cached(cache)
    BY <1>1, <1>3, VictimIsCached
  <1>6. Len(cache.order) = MaxEntries
    BY <1>1, <1>3, MaxEntriesAssumption DEF Full
  <1>7. QED
    BY <1>3, <1>4, <1>5, <1>6 DEF Victim

\* A version names one value: no call changes the value of an entry that stays
\* cached without raising its version by one (cache.zig put, casPut, incr).
THEOREM VersionsNameValues == Spec => VersionNamesValue
  <1>1. IInv /\ [Next]_vars =>
           \A x \in Cached(cache) \cap Cached(cache') :
              SameOrNewVersion(cache.entries[x], cache'.entries[x])
    BY NextKeepsVersions
  <1>2. IInv /\ [Next]_vars =>
           [\A k \in Cached(cache) \cap Cached(cache)' :
               LET old == cache.entries[k]
                   new == cache'.entries[k]
               IN  /\ new.value # old.value => new.version = old.version + 1
                   /\ new.version \in {old.version, old.version + 1}]_vars
    BY <1>1 DEF SameOrNewVersion, Cached
  <1>3. QED
    BY <1>2, InvInductive, PTL DEF Spec, VersionNamesValue

\* An eviction happens only in a full cache and takes the tail's entry alone.
THEOREM EvictionsTakeTheTail == Spec => OnlyTheTailIsEvicted
  <1>1. IInv /\ [Next]_vars =>
           [stats'["evictions"] > stats["evictions"] =>
              /\ Cached(cache) \ Cached(cache)' = {cache.order[Len(cache.order)]}
              /\ Len(cache.order) = MaxEntries]_vars
    BY NextEvictsTheTail DEF Cached
  <1>2. QED
    BY <1>1, InvInductive, PTL DEF Spec, OnlyTheTailIsEvicted

-----------------------------------------------------------------------------
(* Optimistic clients of the engine: nothing is lost unless the entry was  *)
(* removed since the client read it, for any number of clients.            *)

\* NoLostUpdate is a property of steps; SeenIsCurrent is the state that makes
\* it true, and it needs the cache to be well formed for its own induction.
ClientsInv ==
    /\ ClientsTypeOK
    /\ WellFormed(engine)
    /\ Len(engine.order) <= MaxEntries
    /\ SeenIsCurrent

LEMMA ClientsInitInv == ClientsInit => ClientsInv
  <1> SUFFICES ASSUME ClientsInit PROVE ClientsInv
    OBVIOUS
  <1>1. \A c \in Clients : seen[c] = Unread
    BY DEF ClientsInit
  <1>2. Unread \in [version : Nat, value : Values \cup {Nothing}]
    BY DEF Unread
  <1>3. ClientsTypeOK
    BY <1>1, <1>2, EmptyCacheOK DEF ClientsInit, ClientsTypeOK
  <1>4. SeenIsCurrent
    BY <1>1 DEF SeenIsCurrent, Unread
  <1>5. WellFormed(engine) /\ Len(engine.order) <= MaxEntries
    BY EmptyCacheOK, MaxEntriesAssumption DEF ClientsInit
  <1>6. QED
    BY <1>3, <1>4, <1>5 DEF ClientsInv

\* What a client knows of the entry stays right when the entry changes.
Knows(s, e) ==
    s.version # 0 =>
        /\ s.version <= e.version
        /\ s.version = e.version /\ s.value # Nothing => s.value = e.value

\* The two halves of the invariant, after a step
CacheKept == CacheTypeOK(engine') /\ WellFormed(engine') /\ Len(engine'.order) <= MaxEntries
SeenKept ==
    /\ seen' \in [Clients -> [version : Nat, value : Values \cup {Nothing}]]
    /\ lapsed' \subseteq Clients
    /\ \A c \in Clients \ lapsed' :
          /\ seen'[c].version # 0 => Shared \in Cached(engine')
          /\ Knows(seen'[c], engine'.entries[Shared])

LEMMA Parts ==
    ASSUME ClientsInv
    PROVE  /\ CacheTypeOK(engine) /\ WellFormed(engine) /\ Len(engine.order) <= MaxEntries
           /\ seen \in [Clients -> [version : Nat, value : Values \cup {Nothing}]]
           /\ lapsed \subseteq Clients
           /\ \A c \in Clients \ lapsed :
                 /\ seen[c].version # 0 => Shared \in Cached(engine)
                 /\ Knows(seen[c], Current)
           /\ Shared \in Cached(engine) =>
                 /\ Current \in Entry
                 /\ Current.version \in Nat \ {0}
                 /\ Current.value \in Values
  <1>1. CacheTypeOK(engine)
    BY DEF ClientsInv, ClientsTypeOK
  <1>2. Shared \in Cached(engine) => /\ Current \in Entry
                                    /\ Current.version \in Nat \ {0}
                                    /\ Current.value \in Values
    BY <1>1 DEF CacheTypeOK, Current, Entry
  <1> QED
    BY <1>2 DEF ClientsInv, ClientsTypeOK, SeenIsCurrent, Knows

\* A client that reads the version, or starts over, is no longer behind.
LEMMA AskVersionOK ==
    ASSUME ClientsInv, NEW c \in Clients, AskVersion(c)
    PROVE  CacheKept /\ SeenKept
  BY Parts DEF AskVersion, Knows, Current, CacheKept, SeenKept

LEMMA SwapFailsOK ==
    ASSUME ClientsInv, NEW c \in Clients, SwapFails(c)
    PROVE  CacheKept /\ SeenKept
  BY Parts DEF SwapFails, Knows, Unread, Current, CacheKept, SeenKept

LEMMA AskValueOK ==
    ASSUME ClientsInv, NEW c \in Clients, AskValue(c)
    PROVE  CacheKept /\ SeenKept
  <1>1. Shared \in Cached(engine) /\ engine' = Read(engine, Shared)
    BY DEF AskValue
  <1>2. /\ CacheKept
        /\ Cached(engine') = Cached(engine)
        /\ engine'.entries[Shared].value = Current.value
        /\ engine'.entries[Shared].version = Current.version
    BY <1>1, Parts, ReadKeeps DEF Current, CacheKept
  <1>3. SeenKept
    BY <1>1, <1>2, Parts DEF AskValue, Knows, SeenKept
  <1> QED
    BY <1>2, <1>3

\* A new value under the next version
LEMMA OverwriteOK ==
    ASSUME ClientsInv, NEW v \in Values, Shared \in Cached(engine),
           engine' = Overwrite(engine, Shared, v),
           \/ UNCHANGED <<seen, lapsed>>
           \/ \E c \in Clients : /\ seen' = [seen EXCEPT ![c] = Unread]
                                 /\ lapsed' = lapsed \ {c}
    PROVE  CacheKept /\ SeenKept
  <1>1. /\ CacheKept
        /\ Cached(engine') = Cached(engine)
        /\ engine'.entries[Shared].version = Current.version + 1
    BY Parts, OverwriteKeeps DEF Current, CacheKept
  <1>2. \A c \in Clients \ lapsed : Knows(seen[c], engine'.entries[Shared])
    BY <1>1, Parts DEF Knows
  <1>3. SeenKept
    BY <1>1, <1>2, Parts DEF Knows, Unread, SeenKept
  <1> QED
    BY <1>1, <1>3

\* A step of others that removes the entry or leaves it as it is
LEMMA OthersOK ==
    ASSUME ClientsInv, CacheKept, Lapse, UNCHANGED seen,
           Shared \in Cached(engine) /\ Shared \in Cached(engine') =>
               engine'.entries[Shared] = Current
    PROVE  SeenKept
  <1>1. CASE Shared \in Cached(engine) /\ Shared \notin Cached(engine')
    <2>1. lapsed' = {c \in Clients : seen[c].version # 0}
      BY <1>1 DEF Lapse
    <2> QED
      BY <2>1, Parts DEF SeenKept, Knows
  <1>2. CASE ~(Shared \in Cached(engine) /\ Shared \notin Cached(engine'))
    <2>1. lapsed' = lapsed
      BY <1>2 DEF Lapse
    <2> QED
      BY <1>2, <2>1, Parts DEF SeenKept, Knows
  <1> QED
    BY <1>1, <1>2

LEMMA WriteOK ==
    ASSUME ClientsInv, NEW k \in Keys, NEW v \in Values, Write(k, v)
    PROVE  CacheKept /\ SeenKept
  <1>1. CASE k = Shared /\ k \in Cached(engine)
    <2>1. engine' = Overwrite(engine, Shared, v)
      BY <1>1 DEF Write, Put
    <2>2. Cached(engine') = Cached(engine)
      BY <1>1, <2>1, Parts, OverwriteKeeps
    <2>3. UNCHANGED <<seen, lapsed>>
      BY <2>2 DEF Write, Lapse
    <2> QED
      BY <1>1, <2>1, <2>3, OverwriteOK
  <1>2. CASE k # Shared /\ k \in Cached(engine)
    <2>1. /\ CacheKept
          /\ Shared \in Cached(engine) => engine'.entries[Shared] = Current
      BY <1>2, Parts, OverwriteKeeps DEF Write, Put, Current, CacheKept
    <2> QED
      BY <2>1, OthersOK DEF Write
  <1>3. CASE k \notin Cached(engine)
    <2>1. engine' = Insert(engine, k, v)
      BY <1>3 DEF Write, Put
    <2>2. CacheKept
      BY <1>3, <2>1, Parts, InsertAdds DEF CacheKept
    <2>3. Shared \in Cached(engine) /\ Shared \in Cached(engine') =>
             engine'.entries[Shared] = Current
      BY <1>3, <2>1, Parts, InsertAdds DEF Current
    <2> QED
      BY <2>2, <2>3, OthersOK DEF Write
  <1> QED
    BY <1>1, <1>2, <1>3

LEMMA DropOK ==
    ASSUME ClientsInv, NEW k \in Keys, Drop(k)
    PROVE  CacheKept /\ SeenKept
  <1>1. k \in Cached(engine) /\ engine' = Unlink(engine, k)
    BY DEF Drop, Delete
  <1>2. /\ CacheKept
        /\ Cached(engine') = Cached(engine) \ {k}
        /\ \A x \in Cached(engine) \ {k} : engine'.entries[x] = engine.entries[x]
    <2>1. Len(engine.order) \in Nat /\ Len(engine.order) - 1 <= MaxEntries
      BY Parts, MaxEntriesAssumption DEF CacheTypeOK
    <2> QED
      BY <1>1, <2>1, Parts, UnlinkRemoves DEF CacheKept
  <1>3. SeenKept
    BY <1>2, OthersOK DEF Drop, Current
  <1> QED
    BY <1>2, <1>3

LEMMA FlushOK ==
    ASSUME ClientsInv, Flush
    PROVE  CacheKept /\ SeenKept
  <1>1. CacheKept
    BY EmptyCacheOK, MaxEntriesAssumption DEF Flush, CacheKept
  <1>2. Shared \notin Cached(engine')
    BY DEF Flush, EmptyCache, Cached
  <1> QED
    BY <1>1, <1>2, OthersOK DEF Flush

LEMMA IncrementOK ==
    ASSUME ClientsInv, NEW delta \in Increments, Increment(delta)
    PROVE  CacheKept /\ SeenKept
  <1>1. Current.value + delta \in Values
    BY NumbersAssumption DEF Increment, IsNumber
  <1> QED
    BY <1>1, OverwriteOK DEF Increment

LEMMA ClientsNextInv == ClientsInv /\ [ClientsNext]_clientvars => ClientsInv'
  <1> SUFFICES ASSUME ClientsInv, [ClientsNext]_clientvars PROVE ClientsInv'
    OBVIOUS
  <1>1. SUFFICES CacheKept /\ SeenKept
    BY DEF ClientsInv, ClientsTypeOK, SeenIsCurrent, Knows, Current, Cached, CacheKept, SeenKept
  <1>2. ASSUME NEW c \in Clients, NEW v \in Values, Swap(c, v)
        PROVE  CacheKept /\ SeenKept
    BY <1>2, OverwriteOK DEF Swap
  <1>3. ASSUME UNCHANGED clientvars PROVE CacheKept /\ SeenKept
    BY <1>3, Parts DEF clientvars, Current, CacheKept, SeenKept
  <1> QED
    BY <1>2, <1>3, AskVersionOK, AskValueOK, SwapFailsOK, WriteOK, DropOK, FlushOK,
       IncrementOK DEF ClientsNext

\* What clients hold stays consistent with an entry that was not removed, so
\* that an equal version means an equal value (cache.zig casPut, getVersion,
\* app.ts cas and version).
THEOREM SeenStaysCurrent == ClientsSpec => []SeenIsCurrent
  <1>1. ClientsInv => SeenIsCurrent
    BY DEF ClientsInv
  <1> QED
    BY <1>1, ClientsInitInv, ClientsNextInv, PTL DEF ClientsSpec

\* Optimistic concurrency control works unless the entry was removed since: a
\* successful compare-and-swap replaces the value that its client read.
THEOREM NoUpdateIsLost == ClientsSpec => NoLostUpdate
  <1>1. ClientsInv =>
           \A c \in Clients \ lapsed, v \in Values :
              Swap(c, v) => seen[c].value = Current.value
    <2> SUFFICES ASSUME ClientsInv, NEW c \in Clients \ lapsed, NEW v \in Values, Swap(c, v)
                 PROVE  seen[c].value = Current.value
      OBVIOUS
    <2>1. seen[c].version = Current.version /\ seen[c].value # Nothing
      BY DEF Swap
    <2>2. Current.version # 0
      BY Parts DEF Swap
    <2> QED
      BY <2>1, <2>2 DEF ClientsInv, SeenIsCurrent
  <1>2. ClientsInv /\ [ClientsNext]_clientvars =>
           [\A c \in Clients \ lapsed, v \in Values :
               Swap(c, v) => seen[c].value = Current.value]_clientvars
    BY <1>1
  <1> QED
    BY <1>2, ClientsInitInv, ClientsNextInv, PTL DEF ClientsSpec, NoLostUpdate
=============================================================================
