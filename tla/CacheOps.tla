------------------------------ MODULE CacheOps ------------------------------
(***************************************************************************)
(* The operations of the native cache engine (zig/src/cache.zig) on an     *)
(* abstract cache: a record of the hash map and of the eviction list seen  *)
(* as a sequence of keys, from the head (promoted last) to the tail (the   *)
(* next victim).  Module LinkedCache holds the pointers; CacheService and  *)
(* the lock service call these operators the way cache-service.ts calls    *)
(* the library.                                                            *)
(***************************************************************************)
EXTENDS Integers, SequencesExt

CONSTANTS
    Keys,        \* the full keys that clients use
    Values,      \* the stored byte strings; decimal ones are integers
    MaxEntries,  \* max_entries
    Policy,      \* eviction_policy
    IntBits      \* width of the signed integers incr works on (64 in the code)

ASSUME MaxEntriesAssumption == MaxEntries \in Nat \ {0}
ASSUME PolicyAssumption == Policy \in {"lru", "lfu", "arc"}
ASSUME IntBitsAssumption == IntBits \in Nat \ {0}

\* incr parses the value and traps (safe builds) when the sum overflows.
Numbers == -(2 ^ (IntBits - 1)) .. (2 ^ (IntBits - 1) - 1)
IsNumber(v) == v \in Numbers

ASSUME NumbersAssumption == Numbers \subseteq Values

\* An entry as the map stores it, without the pointers.
Entry == [value : Values, version : Nat \ {0}, access_count : Nat \ {0}]

\* Wrong: a new entry whose own put is not counted as an access.
UncountedNewEntry(v) == [value |-> v, version |-> 1, access_count |-> 0]

NewEntry(v) == [value |-> v, version |-> 1, access_count |-> 1]

EmptyCache == [entries |-> << >>, order |-> << >>]

Cached(c) == DOMAIN c.entries

-----------------------------------------------------------------------------
(* The eviction list.                                                      *)

Position(s, k) == CHOOSE i \in DOMAIN s : s[i] = k

\* The element at i moves up to position j <= i; those between move down one.
MoveUp(s, i, j) ==
    [n \in DOMAIN s |-> IF n < j \/ n > i THEN s[n]
                        ELSE IF n = j THEN s[i] ELSE s[n - 1]]

\* Where reorderByFrequency stops: just below the nearest entry towards the
\* head that was accessed at least as often, or at the head.
BubbleTarget(s, i, count) ==
    CHOOSE j \in 1..i :
        /\ \A m \in j..(i - 1) : count[s[m]] < count[s[i]]
        /\ j > 1 => count[s[j - 1]] >= count[s[i]]

\* promoteEntry; arc counts as lfu above three accesses and as lru below.
ByFrequency(accesses) == Policy = "lfu" \/ (Policy = "arc" /\ accesses > 3)

Promote(s, k, count) ==
    LET i == Position(s, k) IN
    MoveUp(s, i, IF ByFrequency(count[k]) THEN BubbleTarget(s, i, count) ELSE 1)

-----------------------------------------------------------------------------
(* The operations.  Those on a key that is not cached change nothing.      *)

Counts(entries) == [k \in DOMAIN entries |-> entries[k].access_count]

\* An entry is replaced, its access counted, and it is promoted.
Replace(c, k, e) ==
    LET entries == [c.entries EXCEPT ![k] = e] IN
    [entries |-> entries, order |-> Promote(c.order, k, Counts(entries))]

\* A successful get.
Read(c, k) ==
    Replace(c, k, [c.entries[k] EXCEPT !.access_count = @ + 1])

\* Wrong: a put over an existing entry that forgets its version.
OverwriteKeepingVersion(c, k, v) ==
    Replace(c, k, [c.entries[k] EXCEPT !.value = v, !.access_count = @ + 1])

\* The branch of put, casPut and incr that finds the key.
Overwrite(c, k, v) ==
    Replace(c, k, [value |-> v,
                   version |-> c.entries[k].version + 1,
                   access_count |-> c.entries[k].access_count + 1])

\* A get of any key, with or without a hit.
Lookup(c, k) == IF k \in Cached(c) THEN Read(c, k) ELSE c

\* Wrong: the entry leaves the map and stays in the list.
UnlinkFromMapOnly(c, k) ==
    [entries |-> Restrict(c.entries, Cached(c) \ {k}), order |-> c.order]

Unlink(c, k) ==
    [entries |-> Restrict(c.entries, Cached(c) \ {k}),
     order |-> RemoveAt(c.order, Position(c.order, k))]

\* delete.
Delete(c, k) == IF k \in Cached(c) THEN Unlink(c, k) ELSE c

Full(c) == Len(c.order) >= MaxEntries

\* Wrong: the end that was used last is evicted.
VictimAtHead(c) == Head(c.order)

Victim(c) == c.order[Len(c.order)]

\* The evictions of put; its loop runs at most once (LinkedCache shows why).
MakeRoom(c) == IF Full(c) THEN Unlink(c, Victim(c)) ELSE c

\* The branch of put that adds an entry, at the head whatever the policy.
Insert(c, k, v) ==
    LET room == MakeRoom(c) IN
    [entries |-> [x \in Cached(room) \cup {k} |->
                     IF x = k THEN NewEntry(v) ELSE room.entries[x]],
     order |-> Cons(k, room.order)]

Put(c, k, v) == IF k \in Cached(c) THEN Overwrite(c, k, v) ELSE Insert(c, k, v)

-----------------------------------------------------------------------------

CacheTypeOK(c) ==
    /\ c = [entries |-> c.entries, order |-> c.order]
    /\ Cached(c) \subseteq Keys
    /\ c.entries \in [Cached(c) -> Entry]
    /\ c.order \in Seq(Keys)

\* A list without repetitions.
Distinct(s) == \A i, j \in DOMAIN s : s[i] = s[j] => i = j

\* The hash map and the list hold the same entries, each once.
WellFormed(c) == ToSet(c.order) = Cached(c) /\ Distinct(c.order)
=============================================================================
