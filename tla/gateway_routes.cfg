SPECIFICATION Spec
CONSTANTS
    None = None
    Token = Token
    a1 = a1  n1 = n1  k1 = k1  k2 = k2
    Addresses = {a1}
    Namespaces = {n1}
    Keys = {k1, k2}
    HasToken = TRUE
    HasRBAC = TRUE
    HasDatabase = TRUE
    MaxRequests = 2
    WindowMs = 2
    PurgeAge = 2
    Limits <- MCLimits
    Requests <- MCWarmup
    Slots = {c1}
INVARIANT SpecificRoutesFirst
