SPECIFICATION Spec
CONSTANTS
    Null = Null
    q1 = q1  p1 = p1  t1 = t1  t2 = t2
    Tags = {t1, t2}
    Ids = {q1, p1}
    QueryKeys = {q1}
    PlainKeys = {p1}
    Clients = {c1}
    Connectors = {n1}
    QueryLimit = 1
    Configs <- MCConfigs
    Requests <- MCRequests
    Rows <- MCRows
    TagLists <- MCTagLists
    Envelopes <- MCEnvelopes
    DefaultTTL = 1
    QueryTTL = 1
    ProxyTTL = 1
    WriteBehind = FALSE
    MaxVersion = 1
    MaxTime = 2
INVARIANTS LevelsAgree AgeIsBounded
PROPERTY ImplementsStore
CHECK_DEADLOCK FALSE
