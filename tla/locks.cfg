CONSTANTS
    lock = lock  other = other  ann = ann  bob = bob
    Undefined = Undefined  Null = Null  NoFile = NoFile  Partial = Partial
    Keys = {lock, other}
    Values <- MCValues
    Payloads <- MCValues
    Pack <- MCPack
    Unpack <- MCPack
    Wide = {}
    MaxEntries = 2
    Policy = "lru"
    IntBits = 1
    BloomFilter = TRUE
    Hash <- MCHash
    TTLs = {1}
    DefaultTTL = 0
    Deltas = {1}
    MaxAccess = 3
    MaxTime = 3
    MaxCrashes = 0
    Locks = {lock}
    Owners = {ann, bob}
    LockTTLs = {0, 1, 3}
    MaxTTL = 2
SPECIFICATION LockSpec
INVARIANT LeasesAreHonoured
PROPERTY AutomaticRelease
