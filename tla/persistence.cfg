CONSTANTS
    k1 = k1  k2 = k2  k3 = k3  packed = packed
    Undefined = Undefined  Null = Null  NoFile = NoFile  Partial = Partial
    Keys = {k1, k2, k3}
    Values <- MCValues
    Payloads <- MCPayloads
    Pack <- MCPack
    Unpack <- MCUnpack
    Wide = {}
    MaxEntries = 2
    Policy = "lru"
    IntBits = 1
    BloomFilter = TRUE
    Hash <- MCHash
    TTLs = {}
    DefaultTTL = 0
    Deltas = {1}
    MaxAccess = 2
    MaxTime = 0
    MaxCrashes = 1
SPECIFICATION PersistenceSpec
INVARIANTS RestoreIsComplete ServiceOK ExportIsComplete
PROPERTIES SavesTheContent BusyEnds
