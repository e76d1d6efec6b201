CONSTANTS
    lock = lock  other = other  ann = ann  bob = bob
    Undefined = Undefined  Null = Null  NoFile = NoFile  Partial = Partial
    Keys = {lock}
    Values <- MCValues
    Payloads <- MCValues
    Pack <- MCPack
    Unpack <- MCPack
    Wide = {}
    MaxEntries = 2
    Policy = "lru"
    IntBits = 1
    BloomFilter = TRUE
    Hash <- MCHash
    TTLs = {1}
    DefaultTTL = 0
    Deltas = {1}
    MaxAccess = 3
    MaxTime = 2
    MaxCrashes = 0
    Locks = {lock}
    Owners = {ann, bob}
    LockTTLs = {0, 1}
    MaxTTL = 2
\* With MaxCrashes = 1, SPECIFICATION DisturbedSpec and PROPERTY AutomaticRelease:
\* a lock restored from a snapshot has no timer.
SPECIFICATION LockSpec
PROPERTY EveryLockIsReleased
