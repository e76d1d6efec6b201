----------------------------- MODULE MCGateway -----------------------------
EXTENDS Gateway

CONSTANTS a1, n1, k1, k2

MCLimits == {[maxRequests |-> 1, windowMs |-> 2], [maxRequests |-> 2, windowMs |-> 1]}

MCOneLimit == {[maxRequests |-> 1, windowMs |-> 2]}

Request(method, path, credential, args) ==
    [method |-> method, path |-> path, address |-> a1, ns |-> None,
     credential |-> credential, large |-> FALSE, valid |-> TRUE, args |-> args]

\* A read of the cache, limited by namespace; changes of the limit and of the
\* keys; a health probe with a key that may be no good any more.
MCRequests ==
    {[Request("GET", <<"cache", "x">>, Token, None) EXCEPT !.ns = n1],
     Request("DELETE", <<"rate-limits", "n1">>, Token, n1),
     Request("POST", <<"admin", "keys">>, Token, [admin |-> TRUE, left |-> 1]),
     Request("POST", <<"admin", "keys">>, k1, [admin |-> FALSE, left |-> None]),
     Request("POST", <<"admin", "keys">>, Token, [admin |-> FALSE, left |-> None]),
     Request("DELETE", <<"admin", "keys", "k1">>, Token, k1),
     Request("GET", <<"health">>, k1, None)}
    \cup {Request("POST", <<"rate-limits">>, Token, [ns |-> n1, limit |-> l]) : l \in MCLimits}

\* A reader, and whoever removes the limit and sets it again.
MCQuota ==
    {[Request("GET", <<"cache", "x">>, Token, None) EXCEPT !.ns = n1],
     Request("DELETE", <<"rate-limits", "n1">>, Token, n1)}
    \cup {Request("POST", <<"rate-limits">>, Token, [ns |-> n1, limit |-> l]) : l \in MCOneLimit}

\* The requests of a loader that warms the cache up.
MCWarmup == {Request("POST", <<"cache", "warmup">>, Token, None)}
=============================================================================
