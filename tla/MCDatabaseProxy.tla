-------------------------- MODULE MCDatabaseProxy --------------------------
EXTENDS DatabaseProxy

CONSTANTS q1, p1, t1, t2

\* One with a tag of its own, one that is read-only and has a limit.
MCConfigs ==
    {[readOnly |-> FALSE, maxCacheTTL |-> Null, defaultTags |-> <<t1>>],
     [readOnly |-> TRUE, maxCacheTTL |-> 1, defaultTags |-> << >>]}

\* The first names the connector's tag again and leaves its time to live to
\* the defaults; the second, a mutation, is to be kept for ever.
MCRequests ==
    {[key |-> q1, mutation |-> FALSE, skipCache |-> FALSE, ttl |-> Null, tags |-> <<t1>>],
     [key |-> q1, mutation |-> TRUE, skipCache |-> FALSE, ttl |-> 0, tags |-> <<t2>>]}

MCRows == {[value |-> Null, ttl |-> 1, tags |-> <<t1>>]}

\* A result of another time, which was to be kept for one unit of time.
MCEnvelopes == {[data |-> 0, storedAt |-> 0, ttl |-> 1]}

MCTagLists == {{}, {t1}}
=============================================================================
