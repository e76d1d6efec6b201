------------------------------- MODULE Router -------------------------------
(***************************************************************************)
(* The router (server/router.ts) and the routes that createApp registers   *)
(* with it (server/app.ts), in their order.  A path is the sequence of its *)
(* segments; Param stands for a named segment of a pattern.  Of a handler  *)
(* a route says what decides how far a request gets before its effect: the *)
(* service it needs, whether it validates a key, whether it awaits a JSON  *)
(* body, and whether it takes one that is malformed for an empty one.      *)
(***************************************************************************)
EXTENDS Naturals, Sequences, SequencesExt

Param == ":"

Route(method, path) ==
    [method |-> method, path |-> path, needs |-> "nothing",
     keyed |-> FALSE, reads |-> FALSE, lenient |-> FALSE]

Get(path) == Route("GET", path)
Post(path) == Route("POST", path)
Del(path) == Route("DELETE", path)

Reads(route) == [route EXCEPT !.reads = TRUE]
Lenient(route) == [Reads(route) EXCEPT !.lenient = TRUE]
Keyed(route) == [route EXCEPT !.keyed = TRUE]
Needs(service, route) == [route EXCEPT !.needs = service]

HealthRoutes ==
    <<Get(<<"health">>), Get(<<"health", "live">>), Get(<<"health", "ready">>)>>

CacheRoutes ==
    <<Keyed(Get(<<"cache", Param>>)), Keyed(Reads(Post(<<"cache", Param>>))),
      Keyed(Del(<<"cache", Param>>)), Reads(Post(<<"cache">>))>>

ManagementRoutes ==
    <<Get(<<"keys">>), Get(<<"stats">>), Get(<<"stats", "history">>), Post(<<"flush">>),
      Post(<<"snapshot">>), Get(<<"snapshot", "download">>),
      Reads(Post(<<"snapshot", "upload">>)), Get(<<"export">>), Reads(Post(<<"import">>)),
      Get(<<"info">>)>>

StorageRoutes ==
    LET routes == <<Keyed(Get(<<"db", Param>>)), Keyed(Reads(Post(<<"db", Param>>))),
                    Keyed(Del(<<"db", Param>>)), Reads(Post(<<"db">>)), Get(<<"db-stats">>),
                    Get(<<"db-keys">>), Post(<<"db-clear">>), Post(<<"db-purge">>)>>
    IN [i \in DOMAIN routes |-> Needs("database", routes[i])]

QueryRoutes ==
    LET routes == <<Get(<<"query-cache", "stats">>), Get(<<"query-cache", Param>>),
                    Reads(Post(<<"query-cache">>)), Reads(Post(<<"query-cache", "invalidate">>)),
                    Post(<<"query-cache", "clear">>), Get(<<"db-proxy", "connectors">>),
                    Reads(Post(<<"db-proxy", "register">>)),
                    Reads(Post(<<"db-proxy", "unregister">>)),
                    Reads(Post(<<"db-proxy", "query">>)),
                    Reads(Post(<<"db-proxy", "invalidate">>)),
                    Get(<<"db-proxy", "buffer", "stats">>),
                    Post(<<"db-proxy", "buffer", "flush">>)>>
    IN [i \in DOMAIN routes |-> Needs("database", routes[i])]

AtomicRoutes ==
    <<Keyed(Lenient(Post(<<"cache", Param, "incr">>))),
      Keyed(Lenient(Post(<<"cache", Param, "decr">>))),
      Keyed(Get(<<"cache", Param, "version">>)),
      Keyed(Reads(Route("PUT", <<"cache", Param, "cas">>))),
      Keyed(Get(<<"cache", Param, "ttl">>)), Keyed(Reads(Post(<<"cache", Param, "touch">>))),
      Reads(Post(<<"cache", "warmup">>)), Get(<<"cache", "info">>)>>

LockRoutes ==
    <<Keyed(Lenient(Post(<<"locks", Param, "acquire">>))),
      Keyed(Reads(Post(<<"locks", Param, "release">>))),
      Keyed(Reads(Post(<<"locks", Param, "extend">>))),
      Keyed(Get(<<"locks", Param>>)), Keyed(Del(<<"locks", Param>>)), Get(<<"locks">>)>>

ReplicationRoutes ==
    <<Get(<<"replication", "status">>), Get(<<"replication", "replicas">>),
      Reads(Post(<<"replication", "replicas">>)), Del(<<"replication", "replicas", Param>>),
      Post(<<"replication", "enable">>), Post(<<"replication", "disable">>),
      Post(<<"replication", "replicas", Param, "enable">>),
      Post(<<"replication", "replicas", Param, "disable">>)>>

LimitRoutes ==
    <<Get(<<"rate-limits">>), Reads(Post(<<"rate-limits">>)), Del(<<"rate-limits", Param>>),
      Get(<<"rate-limits", Param>>)>>

AdminRoutes ==
    LET routes == <<Reads(Post(<<"admin", "keys">>)), Get(<<"admin", "keys">>),
                    Get(<<"admin", "keys", Param>>), Del(<<"admin", "keys", Param>>)>>
    IN [i \in DOMAIN routes |-> Needs("rbac", routes[i])]

Routes ==
    HealthRoutes \o CacheRoutes \o ManagementRoutes \o StorageRoutes \o QueryRoutes
        \o AtomicRoutes \o LockRoutes \o ReplicationRoutes \o LimitRoutes \o AdminRoutes
        \o <<Get(<<"metrics">>)>>

matchPath(pattern, path) ==
    /\ Len(pattern) = Len(path)
    /\ \A i \in DOMAIN path : pattern[i] \in {Param, path[i]}

Matching(method, path) ==
    {i \in DOMAIN Routes : Routes[i].method = method /\ matchPath(Routes[i].path, path)}

\* The first that was registered.  0 if there is none.
match(method, path) ==
    LET found == Matching(method, path) IN
    IF found = {} THEN 0 ELSE CHOOSE i \in found : \A j \in found : i <= j

\* Route i says more of the path than route j.
MoreSpecific(i, j) ==
    /\ Routes[i].path # Routes[j].path
    /\ \A s \in DOMAIN Routes[i].path : Routes[j].path[s] \in {Param, Routes[i].path[s]}
=============================================================================
