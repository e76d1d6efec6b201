---------------------------- MODULE LinkedCache ----------------------------
(***************************************************************************)
(* The native cache engine as cache.zig implements it: a hash map whose    *)
(* entries are the nodes of a doubly linked list, and calls whose loops    *)
(* (the evictions of put, the swaps of reorderByFrequency) run one         *)
(* iteration per step.  It implements CacheEngine, whose single step is    *)
(* the call; the iterations are stuttering steps of it.                    *)
(***************************************************************************)
EXTENDS CacheOps

CONSTANTS KeyLen, ValueLen, Deltas, MaxAccess, MaxPuts, NULL

ASSUME NullAssumption == NULL \notin Keys
ASSUME LenAssumption == /\ KeyLen \in [Keys -> Nat]
                        /\ ValueLen \in [Values -> Nat]
ASSUME DeltasAssumption == Deltas \subseteq Int

VARIABLES
    map,    \* key -> entry, without its two pointers
    list,   \* the pointers: prev and next of the entries, head, tail
    stats,  \* the counters
    memory_bytes,
    call    \* the loop the call in progress is in

vars == <<map, list, stats, memory_bytes, call>>

Counters == {"evictions", "puts", "deletes", "cas_hits", "current_size"}

Node == Keys \cup {NULL}

List == [prev : [Keys -> Node], next : [Keys -> Node], head : Node, tail : Node]

\* The pointers of a key that has no entry are NULL.
EmptyList == [prev |-> [k \in Keys |-> NULL], next |-> [k \in Keys |-> NULL],
              head |-> NULL, tail |-> NULL]

Returned == [op |-> "none"]

Calls == {Returned} \cup [op : {"evicting"}, key : Keys, value : Values]
                    \cup [op : {"bubbling"}, key : Keys]

-----------------------------------------------------------------------------
(* The pointer surgery.  A NULL index stands for the branch that updates   *)
(* head or tail instead of a neighbour.                                    *)

\* Wrong: detaching the last entry leaves tail pointing at it.
DetachKeepingTail(l, e) ==
    LET p == l.prev[e]
        n == l.next[e]
    IN  [head |-> IF p = NULL THEN n ELSE l.head,
         tail |-> l.tail,
         next |-> [x \in Keys |-> IF x = e THEN NULL
                                  ELSE IF x = p THEN n ELSE l.next[x]],
         prev |-> [x \in Keys |-> IF x = e THEN NULL
                                  ELSE IF x = n THEN p ELSE l.prev[x]]]

Detach(l, e) ==
    LET p == l.prev[e]
        n == l.next[e]
    IN  [head |-> IF p = NULL THEN n ELSE l.head,
         tail |-> IF n = NULL THEN p ELSE l.tail,
         next |-> [x \in Keys |-> IF x = e THEN NULL
                                  ELSE IF x = p THEN n ELSE l.next[x]],
         prev |-> [x \in Keys |-> IF x = e THEN NULL
                                  ELSE IF x = n THEN p ELSE l.prev[x]]]

PushFront(l, e) ==
    [head |-> e,
     tail |-> IF l.tail = NULL THEN e ELSE l.tail,
     next |-> [l.next EXCEPT ![e] = l.head],
     prev |-> [x \in Keys |-> IF x = e THEN NULL
                              ELSE IF x = l.head THEN e ELSE l.prev[x]]]

\* Wrong: the entry that moved up keeps its old prev pointer.
SwapKeepingPrev(l, e) ==
    LET p  == l.prev[e]
        pp == l.prev[p]
        n  == l.next[e]
    IN  [head |-> IF pp = NULL THEN e ELSE l.head,
         tail |-> IF n = NULL THEN p ELSE l.tail,
         next |-> [x \in Keys |-> IF x = e THEN p
                                  ELSE IF x = p THEN n
                                  ELSE IF x = pp THEN e ELSE l.next[x]],
         prev |-> [x \in Keys |-> IF x = p THEN e
                                  ELSE IF x = n THEN p ELSE l.prev[x]]]

SwapWithPrev(l, e) ==
    LET p  == l.prev[e]
        pp == l.prev[p]
        n  == l.next[e]
    IN  [head |-> IF pp = NULL THEN e ELSE l.head,
         tail |-> IF n = NULL THEN p ELSE l.tail,
         next |-> [x \in Keys |-> IF x = e THEN p
                                  ELSE IF x = p THEN n
                                  ELSE IF x = pp THEN e ELSE l.next[x]],
         prev |-> [x \in Keys |-> IF x = e THEN pp
                                  ELSE IF x = p THEN e
                                  ELSE IF x = n THEN p ELSE l.prev[x]]]

-----------------------------------------------------------------------------

TypeOK ==
    /\ DOMAIN map \subseteq Keys
    /\ map \in [DOMAIN map -> Entry]
    /\ list \in List
    /\ stats \in [Counters -> Nat]
    /\ memory_bytes \in Nat
    /\ call \in Calls

Init ==
    /\ map = << >>
    /\ list = EmptyList
    /\ stats = [c \in Counters |-> 0]
    /\ memory_bytes = 0
    /\ call = Returned

Idle == call = Returned

CanAccess(k) == k \in DOMAIN map => map[k].access_count < MaxAccess

\* The counters with those in F increased.
Bump(F) == [c \in Counters |-> stats[c] + (IF c \in F THEN 1 ELSE 0)]

CanPut == stats["puts"] < MaxPuts

Size(k) == KeyLen[k] + ValueLen[map[k].value]

\* promoteEntry, the tail call of every operation that finds its key; e is the
\* entry with its access counted.
PromoteEntry(k, e) ==
    /\ map' = [map EXCEPT ![k] = e]
    /\ IF ByFrequency(e.access_count)
       THEN /\ call' = [op |-> "bubbling", key |-> k]
            /\ UNCHANGED list
       ELSE /\ list' = PushFront(Detach(list, k), k)
            /\ UNCHANGED call

Rewritten(k, v) == [value |-> v, version |-> map[k].version + 1,
                    access_count |-> map[k].access_count + 1]

Resized(k, v) == memory_bytes - ValueLen[map[k].value] + ValueLen[v]

PutExisting(k, v) ==
    /\ Idle
    /\ k \in DOMAIN map
    /\ CanAccess(k)
    /\ CanPut
    /\ stats' = Bump({"puts"})
    /\ memory_bytes' = Resized(k, v)
    /\ PromoteEntry(k, Rewritten(k, v))

PutNew(k, v) ==
    /\ Idle
    /\ k \notin DOMAIN map
    /\ CanPut
    /\ stats' = Bump({"puts"})
    /\ call' = [op |-> "evicting", key |-> k, value |-> v]
    /\ UNCHANGED <<map, list, memory_bytes>>

\* An iteration of put's loop: evictOne, which does nothing to an empty list.
EvictOne ==
    /\ call.op = "evicting"
    /\ stats["current_size"] >= MaxEntries
    /\ list.tail # NULL
    /\ LET victim == list.tail IN
       /\ list' = Detach(list, victim)
       /\ map' = Restrict(map, DOMAIN map \ {victim})
       /\ memory_bytes' = memory_bytes - Size(victim)
    /\ stats' = [Bump({"evictions"}) EXCEPT !["current_size"] = @ - 1]
    /\ UNCHANGED call

InsertEntry ==
    /\ call.op = "evicting"
    /\ stats["current_size"] < MaxEntries
    /\ map' = [x \in DOMAIN map \cup {call.key} |->
                  IF x = call.key THEN NewEntry(call.value) ELSE map[x]]
    /\ list' = PushFront(list, call.key)
    /\ stats' = Bump({"current_size"})
    /\ memory_bytes' = memory_bytes + KeyLen[call.key] + ValueLen[call.value]
    /\ call' = Returned

\* Wrong: an entry also passes those accessed equally often.
MustSwapOnTie(k) ==
    /\ list.prev[k] # NULL
    /\ map[k].access_count >= map[list.prev[k]].access_count

\* The loop of reorderByFrequency.
MustSwap(k) ==
    /\ list.prev[k] # NULL
    /\ map[k].access_count > map[list.prev[k]].access_count

SwapUp ==
    /\ call.op = "bubbling"
    /\ MustSwap(call.key)
    /\ list' = SwapWithPrev(list, call.key)
    /\ UNCHANGED <<map, stats, memory_bytes, call>>

StopBubbling ==
    /\ call.op = "bubbling"
    /\ ~MustSwap(call.key)
    /\ call' = Returned
    /\ UNCHANGED <<map, list, stats, memory_bytes>>

Get(k) ==
    /\ Idle
    /\ k \in DOMAIN map
    /\ CanAccess(k)
    /\ PromoteEntry(k, [map[k] EXCEPT !.access_count = @ + 1])
    /\ UNCHANGED <<stats, memory_bytes>>

CasPut(k, v, expected_version) ==
    /\ Idle
    /\ k \in DOMAIN map
    /\ expected_version = map[k].version
    /\ CanAccess(k)
    /\ CanPut
    /\ stats' = Bump({"puts", "cas_hits"})
    /\ memory_bytes' = Resized(k, v)
    /\ PromoteEntry(k, Rewritten(k, v))

Incr(k, delta) ==
    /\ Idle
    /\ k \in DOMAIN map
    /\ CanAccess(k)
    /\ LET current == map[k].value IN
       /\ IsNumber(current)
       /\ IsNumber(current + delta)
       /\ memory_bytes' = Resized(k, current + delta)
       /\ PromoteEntry(k, Rewritten(k, current + delta))
    /\ UNCHANGED stats

\* The overflow stops the process, which restarts with a new cache.
Trap(k, delta) ==
    /\ Idle
    /\ k \in DOMAIN map
    /\ IsNumber(map[k].value)
    /\ ~IsNumber(map[k].value + delta)
    /\ map' = << >>
    /\ list' = EmptyList
    /\ stats' = [c \in Counters |-> 0]
    /\ memory_bytes' = 0
    /\ UNCHANGED call

DeleteKey(k) ==
    /\ Idle
    /\ k \in DOMAIN map
    /\ map' = Restrict(map, DOMAIN map \ {k})
    /\ list' = Detach(list, k)
    /\ stats' = [Bump({"deletes"}) EXCEPT !["current_size"] = @ - 1]
    /\ memory_bytes' = memory_bytes - Size(k)
    /\ UNCHANGED call

Clear ==
    /\ Idle
    /\ map' = << >>
    /\ list' = EmptyList
    /\ stats' = [stats EXCEPT !["current_size"] = 0]
    /\ memory_bytes' = 0
    /\ UNCHANGED call

LoopStep == EvictOne \/ InsertEntry \/ SwapUp \/ StopBubbling

Next ==
    \/ \E k \in Keys, v \in Values : PutExisting(k, v) \/ PutNew(k, v)
    \/ \E k \in Keys : Get(k) \/ DeleteKey(k)
    \/ \E k \in Keys, v \in Values, n \in 1..MaxAccess : CasPut(k, v, n)
    \/ \E k \in Keys, d \in Deltas : Incr(k, d) \/ Trap(k, d)
    \/ Clear
    \/ LoopStep

\* A call runs to its return: the loops are straight-line code of one thread.
Spec == Init /\ [][Next]_vars /\ WF_vars(LoopStep)

-----------------------------------------------------------------------------
(* Properties.                                                             *)

\* s lists the entries as the pointers chain them from head to tail.
Represents(s, l, S) ==
    /\ \A i, j \in DOMAIN s : s[i] = s[j] => i = j
    /\ ToSet(s) = S
    /\ l.head = IF s = << >> THEN NULL ELSE s[1]
    /\ l.tail = IF s = << >> THEN NULL ELSE s[Len(s)]
    /\ \A i \in DOMAIN s :
          /\ l.prev[s[i]] = IF i = 1 THEN NULL ELSE s[i - 1]
          /\ l.next[s[i]] = IF i = Len(s) THEN NULL ELSE s[i + 1]

\* Every iteration of every loop, and so every call, leaves a proper doubly
\* linked list of exactly the entries of the map, of the length the counter
\* says: walking next from head or prev from tail visits each entry once.  A
\* pointer the surgery forgets in one of its head/tail/neighbour cases shows
\* only several calls later, when the list is cut or the walk does not end.
WellLinked ==
    /\ TypeOK
    /\ \E s \in [1..stats["current_size"] -> DOMAIN map] :
          Represents(s, list, DOMAIN map)

\* No call hangs: the eviction loop of put, whose body does nothing once the
\* list is empty, and the bubbling loop both end.
CallsReturn == ~Idle ~> Idle

-----------------------------------------------------------------------------
(* The refinement: the state in which the call in progress will return.    *)

ListOrder ==
    CHOOSE s \in [1..stats["current_size"] -> DOMAIN map] :
        Represents(s, list, DOMAIN map)

Now == [entries |-> map, order |-> ListOrder]

CacheAtReturn ==
    CASE call.op = "evicting" -> Insert(Now, call.key, call.value)
      [] call.op = "bubbling" ->
             [Now EXCEPT !.order = Promote(@, call.key, Counts(map))]
      [] OTHER -> Now

StatsAtReturn ==
    CASE call.op # "evicting" -> stats
      [] call.op = "evicting" /\ Full(Now) -> Bump({"evictions"})
      [] OTHER -> Bump({"current_size"})

MemoryAtReturn ==
    IF call.op # "evicting" THEN memory_bytes
    ELSE memory_bytes - (IF Full(Now) THEN Size(Victim(Now)) ELSE 0)
                      + KeyLen[call.key] + ValueLen[call.value]

Engine == INSTANCE CacheEngine WITH cache <- CacheAtReturn,
                                    stats <- StatsAtReturn,
                                    memory_bytes <- MemoryAtReturn

\* The pointers and loops implement the abstract engine: every call has the
\* effect CacheEngine gives it and the iterations are invisible.
ImplementsEngine == Engine!Spec
=============================================================================
