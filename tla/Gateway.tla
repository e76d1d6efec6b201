------------------------------ MODULE Gateway ------------------------------
(***************************************************************************)
(* The way of a request through the server (server/app.ts, fetch; server/  *)
(* middleware.ts): authentication against the legacy token and the API     *)
(* keys (services/rbac-service.ts), the size of the body, the global rate  *)
(* limit and the namespace's, the router, and the handler, which may wait  *)
(* for the body.  Up to that wait a request is handled in one go: what it  *)
(* awaits before is resolved already.  Of the effects of the handlers the  *)
(* ones on the gateway itself are modelled.  Time is kept as ages, so that *)
(* it may go on for ever.                                                  *)
(***************************************************************************)
EXTENDS Router, FiniteSets, FiniteSetsExt

CONSTANTS
    Addresses,     \* x-forwarded-for, or "unknown"
    Namespaces,
    Keys,          \* the ids of API keys
    None,
    Token,         \* the credential that is the configured token
    HasToken, HasRBAC, HasDatabase,
    MaxRequests, WindowMs,   \* the global rate limit
    PurgeAge,      \* the age at which a bucket is stale
    Limits,        \* what a namespace may be limited to: [maxRequests, windowMs]
    Requests,      \* [method, path, address, ns, credential, large, valid, args]
    Slots          \* the requests that wait for their body at a time

ASSUME LimitAssumption ==
    /\ MaxRequests \in Nat \ {0} /\ WindowMs \in Nat \ {0} /\ PurgeAge \in Nat
    /\ IsFiniteSet(Limits)
    /\ \A l \in Limits : l.maxRequests \in Nat \ {0} /\ l.windowMs \in Nat \ {0}
ASSUME FlagAssumption == {HasToken, HasRBAC, HasDatabase} \subseteq BOOLEAN

Global == [maxRequests |-> MaxRequests, windowMs |-> WindowMs]

\* Bounds: an age beyond which all are alike, a count beyond which all are.
MaxWindow == Max({WindowMs} \cup {l.windowMs : l \in Limits})
OldAge == 1 + Max({PurgeAge, MaxWindow})
MaxCount == 1 + Max({MaxRequests} \cup {l.maxRequests : l \in Limits})
Ages == 0..OldAge
LongAgo == MaxWindow + 1

VARIABLES
    buckets,            \* of each address: [count, age]
    namespaceConfigs,
    namespaceBuckets,   \* of each namespace and address
    api_keys,           \* [admin, active, left, by]; by is history
    waiting,            \* the requests whose handler awaits the body
    accepted, nsAccepted,  \* history: the requests let through, by age
    changed             \* history: how long ago the limit changed or went

limits == <<buckets, namespaceConfigs, namespaceBuckets, accepted, nsAccepted, changed>>
vars == <<limits, api_keys, waiting>>

Credentials == Keys \cup {Token, None}
Bucket == [count : 1..MaxCount, age : Ages] \cup {None}
APIKey == [admin : BOOLEAN, active : BOOLEAN, by : Credentials, left : Int \cup {None}]

ASSUME NoneAssumption ==
    /\ None \notin Limits \cup Namespaces \cup Requests
    /\ None \notin [count : 1..MaxCount, age : Ages] \cup APIKey

TypeOK ==
    /\ buckets \in [Addresses -> Bucket]
    /\ namespaceConfigs \in [Namespaces -> Limits \cup {None}]
    /\ namespaceBuckets \in [Namespaces -> [Addresses -> Bucket]]
    /\ api_keys \in [Keys -> APIKey \cup {None}]
    /\ waiting \in [Slots -> Requests \cup {None}]
    /\ changed \in [Namespaces -> 0..LongAgo]

NobodyYet == [a \in Addresses |-> [age \in 0..MaxWindow |-> 0]]

Init ==
    /\ buckets = [a \in Addresses |-> None]
    /\ namespaceConfigs = [ns \in Namespaces |-> None]
    /\ namespaceBuckets = [ns \in Namespaces |-> [a \in Addresses |-> None]]
    /\ api_keys = [k \in Keys |-> None]
    /\ waiting = [c \in Slots |-> None]
    /\ accepted = NobodyYet /\ nsAccepted = [ns \in Namespaces |-> NobodyYet]
    /\ changed = [ns \in Namespaces |-> LongAgo]

-----------------------------------------------------------------------------
(* Authentication.                                                         *)

ValidKey(k) ==
    /\ k \in Keys /\ api_keys[k] # None
    /\ api_keys[k].active
    /\ api_keys[k].left # None => api_keys[k].left >= 0

Authenticated(credential) ==
    \/ HasToken /\ credential = Token
    \/ HasRBAC /\ ValidKey(credential)
    \/ ~HasToken /\ ~HasRBAC

\* Wrong: whoever is authenticated may.
AnyoneMay(credential) == TRUE

\* checkPermission: without an API key there are no permissions to check.
MayAdmin(credential) ==
    HasRBAC /\ credential \in Keys => api_keys[credential].admin

-----------------------------------------------------------------------------
(* Rate limits.                                                            *)

\* Wrong: each request starts the window anew.
CountedSliding(bucket, windowMs) ==
    IF bucket = None \/ bucket.age > windowMs THEN [count |-> 1, age |-> 0]
    ELSE [count |-> Min({bucket.count + 1, MaxCount}), age |-> 0]

\* The window starts with its first request; a refused one counts as well.
Counted(bucket, windowMs) ==
    IF bucket = None \/ bucket.age > windowMs THEN [count |-> 1, age |-> 0]
    ELSE [bucket EXCEPT !.count = Min({@ + 1, MaxCount})]

Passes(bucket, limit) == Counted(bucket, limit.windowMs).count <= limit.maxRequests

Limited(ns) == ns # None /\ namespaceConfigs[ns] # None

LetThroughBy(q, limited) ==
    /\ Passes(buckets[q.address], Global)
    /\ limited => Passes(namespaceBuckets[q.ns][q.address], namespaceConfigs[q.ns])

\* A namespace is limited if the query string names it.
LetThrough(q) == LetThroughBy(q, Limited(q.ns))

\* rateLimit, of every request that gets so far.
RateLimit(q) ==
    /\ buckets' = [buckets EXCEPT ![q.address] = Counted(@, WindowMs)]
    /\ accepted' = IF Passes(buckets[q.address], Global)
                   THEN [accepted EXCEPT ![q.address][0] = @ + 1] ELSE accepted

\* namespaceRateLimit, of those that rateLimit lets through.
NamespaceCounted(q) ==
    IF Passes(buckets[q.address], Global) /\ Limited(q.ns)
    THEN [namespaceBuckets EXCEPT ![q.ns][q.address] =
             Counted(@, namespaceConfigs[q.ns].windowMs)]
    ELSE namespaceBuckets

NamespaceAccepted(q) ==
    IF LetThrough(q) /\ Limited(q.ns)
    THEN [nsAccepted EXCEPT ![q.ns][q.address][0] = @ + 1] ELSE nsAccepted

\* Wrong: whatever is not of this instant is stale.
StaleSoon(bucket) == bucket # None /\ bucket.age > 0

Stale(bucket) == bucket # None /\ bucket.age > PurgeAge

\* The two intervals that purge buckets.
Purge ==
    /\ buckets' = [a \in Addresses |-> IF Stale(buckets[a]) THEN None ELSE buckets[a]]
    /\ UNCHANGED <<namespaceConfigs, namespaceBuckets, accepted, nsAccepted, changed, api_keys,
                   waiting>>

PurgeNamespaces ==
    /\ namespaceBuckets' =
         [ns \in Namespaces |-> [a \in Addresses |->
             IF Stale(namespaceBuckets[ns][a]) THEN None ELSE namespaceBuckets[ns][a]]]
    /\ UNCHANGED <<buckets, namespaceConfigs, accepted, nsAccepted, changed, api_keys, waiting>>

-----------------------------------------------------------------------------
(* A request.  Those that are answered before rateLimit change nothing:    *)
(* OPTIONS, the pages of the dashboard and of the documentation, and those *)
(* that are not authenticated or are too large.                            *)

Arrives(q) ==
    /\ Authenticated(q.credential) \/ q.path[1] = "health"
    /\ ~q.large

\* 0 if there is none.
RouteOf == [q \in Requests |-> match(q.method, q.path)]

Available(service) ==
    CASE service = "rbac" -> HasRBAC
      [] service = "database" -> HasDatabase
      [] OTHER -> TRUE

IsAdmin(i) == Routes[i] \in Range(AdminRoutes)

\* The handler gets past what it checks first.  The endpoints of GraphQL and
\* of the cluster are no routes.
Proceeds(q) ==
    LET i == RouteOf[q] IN
    /\ i # 0
    /\ Available(Routes[i].needs)
    /\ IsAdmin(i) => MayAdmin(q.credential)
    /\ Routes[i].keyed => q.valid

Waits(q) == Proceeds(q) /\ Routes[RouteOf[q]].reads

Is(q, method, path) == q.method = method /\ matchPath(path, q.path)

\* The arguments that the handlers take from the path and the body.
ASSUME RequestsAssumption ==
    \A q \in Requests :
        /\ q.path \in Seq(STRING) /\ q.address \in Addresses
        /\ q.ns \in Namespaces \cup {None} /\ q.credential \in Credentials
        /\ Is(q, "POST", <<"admin", "keys">>) /\ q.valid =>
               q.args.admin \in BOOLEAN /\ q.args.left \in Int \cup {None}
        /\ Is(q, "POST", <<"rate-limits">>) /\ q.valid =>
               q.args.ns \in Namespaces /\ q.args.limit \in Limits
        /\ Is(q, "DELETE", <<"rate-limits", Param>>) => q.args \in Namespaces

\* 429.
Refuse(q) ==
    /\ Arrives(q) /\ ~LetThrough(q)
    /\ RateLimit(q)
    /\ namespaceBuckets' = NamespaceCounted(q)
    /\ UNCHANGED <<namespaceConfigs, nsAccepted, changed, api_keys, waiting>>

\* The handler awaits the body.
Await(c, q) ==
    /\ waiting[c] = None
    /\ Arrives(q) /\ LetThrough(q) /\ Waits(q)
    /\ waiting' = [waiting EXCEPT ![c] = q]
    /\ RateLimit(q)
    /\ namespaceBuckets' = NamespaceCounted(q)
    /\ nsAccepted' = NamespaceAccepted(q)
    /\ UNCHANGED <<namespaceConfigs, changed, api_keys>>

\* revokeKey, of a key that there is.
RevokeKey(q) ==
    /\ Is(q, "DELETE", <<"admin", "keys", Param>>) /\ Proceeds(q)
    /\ api_keys' = [k \in Keys |-> IF k = q.args /\ api_keys[k] # None
                                   THEN [api_keys[k] EXCEPT !.active = FALSE]
                                   ELSE api_keys[k]]
    /\ namespaceBuckets' = NamespaceCounted(q)
    /\ nsAccepted' = NamespaceAccepted(q)
    /\ UNCHANGED <<namespaceConfigs, changed>>

\* removeNamespaceRateLimit, of a namespace that has a limit: the buckets go.
RemoveLimit(q) ==
    /\ Is(q, "DELETE", <<"rate-limits", Param>>) /\ namespaceConfigs[q.args] # None
    /\ namespaceConfigs' = [namespaceConfigs EXCEPT ![q.args] = None]
    /\ namespaceBuckets' = [NamespaceCounted(q) EXCEPT ![q.args] = [a \in Addresses |-> None]]
    /\ nsAccepted' = NamespaceAccepted(q)
    /\ changed' = [changed EXCEPT ![q.args] = 0]
    /\ UNCHANGED api_keys

\* Any other request that is answered without its body changes no more.
Answer(q) ==
    /\ ~Waits(q)
    /\ ~(Is(q, "DELETE", <<"admin", "keys", Param>>) /\ Proceeds(q))
    /\ ~(Is(q, "DELETE", <<"rate-limits", Param>>) /\ namespaceConfigs[q.args] # None)
    /\ namespaceBuckets' = NamespaceCounted(q)
    /\ nsAccepted' = NamespaceAccepted(q)
    /\ UNCHANGED <<namespaceConfigs, changed, api_keys>>

Handle(q) ==
    /\ Arrives(q) /\ LetThrough(q)
    /\ RateLimit(q)
    /\ RevokeKey(q) \/ RemoveLimit(q) \/ Answer(q)
    /\ UNCHANGED waiting

-----------------------------------------------------------------------------
(* The rest of the handlers that wait, when the body is there.             *)

\* The request was let in with the permissions of its key; none of them is
\* looked at again.
CreateKey(c) ==
    /\ waiting[c] # None /\ waiting[c].valid
    /\ Is(waiting[c], "POST", <<"admin", "keys">>)
    /\ \E k \in Keys :
         /\ api_keys[k] = None
         /\ api_keys' = [api_keys EXCEPT ![k] =
               [admin |-> waiting[c].args.admin, active |-> TRUE,
                left |-> waiting[c].args.left, by |-> waiting[c].credential]]
    /\ waiting' = [waiting EXCEPT ![c] = None]
    /\ UNCHANGED limits

\* configureNamespaceRateLimit: the buckets stay.
ConfigureLimit(c) ==
    /\ waiting[c] # None /\ waiting[c].valid
    /\ Is(waiting[c], "POST", <<"rate-limits">>)
    /\ namespaceConfigs' = [namespaceConfigs EXCEPT ![waiting[c].args.ns] = waiting[c].args.limit]
    /\ changed' = [ns \in Namespaces |->
         IF namespaceConfigs'[ns] = namespaceConfigs[ns] THEN changed[ns] ELSE 0]
    /\ waiting' = [waiting EXCEPT ![c] = None]
    /\ UNCHANGED <<buckets, namespaceBuckets, accepted, nsAccepted, api_keys>>

\* Handlers of other components, bodies that are refused, clients that leave.
Finish(c) ==
    /\ waiting[c] # None
    /\ waiting' = [waiting EXCEPT ![c] = None]
    /\ UNCHANGED <<limits, api_keys>>

Older(bucket) == IF bucket = None THEN None ELSE [bucket EXCEPT !.age = Min({@ + 1, OldAge})]
Shifted(history) == [age \in 0..MaxWindow |-> IF age = 0 THEN 0 ELSE history[age - 1]]

Tick ==
    /\ buckets' = [a \in Addresses |-> Older(buckets[a])]
    /\ namespaceBuckets' =
         [ns \in Namespaces |-> [a \in Addresses |-> Older(namespaceBuckets[ns][a])]]
    /\ accepted' = [a \in Addresses |-> Shifted(accepted[a])]
    /\ nsAccepted' = [ns \in Namespaces |-> [a \in Addresses |-> Shifted(nsAccepted[ns][a])]]
    /\ changed' = [ns \in Namespaces |-> Min({changed[ns] + 1, LongAgo})]
    /\ api_keys' = [k \in Keys |->
         IF api_keys[k] # None /\ api_keys[k].left \notin {None, -1}
         THEN [api_keys[k] EXCEPT !.left = @ - 1] ELSE api_keys[k]]
    /\ UNCHANGED <<namespaceConfigs, waiting>>

Next ==
    \/ \E q \in Requests : Refuse(q) \/ Handle(q) \/ \E c \in Slots : Await(c, q)
    \/ \E c \in Slots : CreateKey(c) \/ ConfigureLimit(c) \/ Finish(c)
    \/ Purge \/ PurgeNamespaces \/ Tick

\* The clock goes on, and the intervals fire.
Spec ==
    Init /\ [][Next]_vars /\ WF_vars(Tick) /\ WF_vars(Purge) /\ WF_vars(PurgeNamespaces)

-----------------------------------------------------------------------------
(* Properties.                                                             *)

AcceptedWithin(history, windowMs) == SumFunctionOnSet(history, 0..windowMs)

\* Whatever the order of requests, purges and changes, no address is let
\* through more than twice the limit in any interval of the length of the
\* window, by the global limit or by one of a namespace that stood unchanged
\* for the whole interval, however often it was posted again: the purge of a
\* bucket, at 120 s, never gives it a new window early, if its window is no
\* longer than that.
RateIsBounded ==
    /\ TypeOK
    /\ WindowMs <= PurgeAge =>
          \A a \in Addresses : AcceptedWithin(accepted[a], WindowMs) <= 2 * MaxRequests
    /\ \A ns \in Namespaces, a \in Addresses :
          LET limit == namespaceConfigs[ns] IN
          limit # None /\ limit.windowMs <= PurgeAge /\ changed[ns] > limit.windowMs =>
              AcceptedWithin(nsAccepted[ns][a], limit.windowMs) <= 2 * limit.maxRequests

\* As RateIsBounded, but over intervals in which the limit changed as well: it
\* does not hold, since the removal of a limit drops the buckets, and the same
\* limit set again starts a new quota.
RateSurvivesChanges ==
    \A ns \in Namespaces, a \in Addresses :
        LET limit == namespaceConfigs[ns] IN
        limit # None =>
            AcceptedWithin(nsAccepted[ns][a], limit.windowMs) <= 2 * limit.maxRequests

\* An address that is refused is let through again, even if it goes on asking
\* all the time, and its bucket is forgotten if it does not.
RefusedClientsRecover ==
    /\ \A a \in Addresses :
          /\ ~Passes(buckets[a], Global) ~> Passes(buckets[a], Global)
          /\ buckets[a] # None ~> (buckets[a] = None \/ buckets[a].age = 0)
    /\ \A ns \in Namespaces, a \in Addresses :
          LET refused == Limited(ns) /\ ~Passes(namespaceBuckets[ns][a], namespaceConfigs[ns])
          IN refused ~> ~refused

\* With a token and API keys, every key goes back to the token by keys that
\* may administrate, whatever was revoked or expired while a request waited
\* for its body: no key is created for a request which nobody authorised.
KeysComeFromAdmins ==
    HasToken /\ HasRBAC =>
        \A k \in Keys : api_keys[k] # None =>
            \/ api_keys[k].by = Token
            \/ /\ api_keys[k].by \in Keys
               /\ api_keys[api_keys[k].by] # None
               /\ api_keys[api_keys[k].by].admin

\* app.ts: "Specific routes must come before parameterized".  A request that
\* waits in a handler is in the handler of the most specific of its routes.
SpecificRoutesFirst ==
    \A c \in Slots : waiting[c] # None =>
        LET q == waiting[c] IN
        ~\E j \in Matching(q.method, q.path) : MoreSpecific(j, match(q.method, q.path))
=============================================================================
