----------------------------- MODULE CasClients -----------------------------
(***************************************************************************)
(* Clients that update one key optimistically: each asks for the version,  *)
(* then for the value (two requests: the server has none that answers      *)
(* both), and puts a new value with a compare-and-swap.  Requests of other *)
(* clients run in between.                                                 *)
(***************************************************************************)
EXTENDS CacheOps

CONSTANTS
    Clients,
    Shared,      \* the key they update
    Nothing,     \* no value read yet
    Increments,
    AccessBound    \* bound on the accesses, and so the versions, of an entry

ASSUME SharedAssumption == Shared \in Keys /\ Nothing \notin Values
ASSUME CasDeltasAssumption == Increments \subseteq Int

VARIABLES
    engine,
    seen,   \* what each client read last: a version, and then a value
    lapsed  \* history: the clients that read before the entry was last removed

clientvars == <<engine, seen, lapsed>>

Unread == [version |-> 0, value |-> Nothing]

ClientsTypeOK ==
    /\ CacheTypeOK(engine)
    /\ seen \in [Clients -> [version : Nat, value : Values \cup {Nothing}]]
    /\ lapsed \subseteq Clients

ClientsInit == engine = EmptyCache /\ seen = [c \in Clients |-> Unread] /\ lapsed = {}

MayAccess(k) ==
    k \in Cached(engine) => engine.entries[k].access_count < AccessBound

Current == engine.entries[Shared]

-----------------------------------------------------------------------------
(* The requests of the clients.                                            *)

AskVersion(c) ==
    /\ Shared \in Cached(engine)
    /\ seen' = [seen EXCEPT ![c] = [version |-> Current.version, value |-> Nothing]]
    /\ lapsed' = lapsed \ {c}
    /\ UNCHANGED engine

AskValue(c) ==
    /\ seen[c].version # 0 /\ seen[c].value = Nothing
    /\ Shared \in Cached(engine) /\ MayAccess(Shared)
    /\ seen' = [seen EXCEPT ![c] = [version |-> seen[c].version, value |-> Current.value]]
    /\ engine' = Read(engine, Shared)
    /\ UNCHANGED lapsed

Swap(c, v) ==
    /\ seen[c].value # Nothing
    /\ Shared \in Cached(engine) /\ MayAccess(Shared)
    /\ Current.version = seen[c].version
    /\ engine' = Overwrite(engine, Shared, v)
    /\ seen' = [seen EXCEPT ![c] = Unread]
    /\ lapsed' = lapsed \ {c}

\* A version mismatch, or no such key: the client starts over.
SwapFails(c) ==
    /\ seen[c].value # Nothing
    /\ Shared \in Cached(engine) => Current.version # seen[c].version
    /\ seen' = [seen EXCEPT ![c] = Unread]
    /\ lapsed' = lapsed \ {c}
    /\ UNCHANGED engine

-----------------------------------------------------------------------------
(* The requests of others, and the timers of the keys.                     *)

\* When the entry goes, what clients know of it lapses: its next version is
\* one again, whatever its last one was.
Lapse ==
    lapsed' = IF Shared \in Cached(engine) /\ Shared \notin Cached(engine')
              THEN {c \in Clients : seen[c].version # 0} ELSE lapsed

Write(k, v) ==
    /\ MayAccess(k)
    /\ engine' = Put(engine, k, v)
    /\ Lapse
    /\ UNCHANGED seen

\* A delete, or the expiry of the key
Drop(k) ==
    /\ k \in Cached(engine)
    /\ engine' = Delete(engine, k)
    /\ Lapse
    /\ UNCHANGED seen

Flush ==
    /\ engine' = EmptyCache
    /\ Lapse
    /\ UNCHANGED seen

\* Wrong: an increment that leaves the version.
IncrementKeepingVersion(delta) ==
    /\ Shared \in Cached(engine) /\ MayAccess(Shared)
    /\ IsNumber(Current.value) /\ IsNumber(Current.value + delta)
    /\ engine' = OverwriteKeepingVersion(engine, Shared, Current.value + delta)
    /\ UNCHANGED <<seen, lapsed>>

Increment(delta) ==
    /\ Shared \in Cached(engine) /\ MayAccess(Shared)
    /\ IsNumber(Current.value) /\ IsNumber(Current.value + delta)
    /\ engine' = Overwrite(engine, Shared, Current.value + delta)
    /\ UNCHANGED <<seen, lapsed>>

ClientsNext ==
    \/ \E c \in Clients : AskVersion(c) \/ AskValue(c) \/ SwapFails(c)
    \/ \E c \in Clients, v \in Values : Swap(c, v)
    \/ \E k \in Keys, v \in Values : Write(k, v)
    \/ \E delta \in Increments : Increment(delta)
    \/ \E k \in Keys : Drop(k)
    \/ Flush

ClientsSpec == ClientsInit /\ [][ClientsNext]_clientvars

-----------------------------------------------------------------------------
(* Properties.                                                             *)

\* A version that a client holds, of an entry that was not removed since,
\* never overtakes the entry's, and while they are equal the value the client
\* read is still the entry's.
SeenIsCurrent ==
    \A c \in Clients \ lapsed : seen[c].version # 0 =>
        /\ Shared \in Cached(engine)
        /\ seen[c].version <= Current.version
        /\ seen[c].version = Current.version /\ seen[c].value # Nothing =>
              seen[c].value = Current.value

\* "Provides optimistic concurrency control": a compare-and-swap succeeds only
\* over the very value its client read, so no update in between is lost; if
\* the entry was not removed since, by an eviction, an expiry or a delete.
NoLostUpdate ==
    [][\A c \in Clients \ lapsed, v \in Values :
          Swap(c, v) => seen[c].value = Current.value]_clientvars
=============================================================================
