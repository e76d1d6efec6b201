CONSTANTS
    k1 = k1  k2 = k2  word = word  packed = packed
    Undefined = Undefined  Null = Null
    Keys = {k1, k2}
    Values <- MCValues
    Payloads <- MCValues
    Pack <- MCPack
    Unpack <- MCUnpack
    Wide = {}
    MaxEntries = 1
    Policy = "lru"
    IntBits = 1
    BloomFilter = TRUE
    Hash <- MCHash
    TTLs = {0, 1, 2}
    DefaultTTL = 0
    Deltas <- MCDeltas
    MaxAccess = 3
    MaxTime = 1
SPECIFICATION Spec
PROPERTY ZeroMeansNoExpiry
