SPECIFICATION RedisSpec
CHECK_DEADLOCK FALSE
CONSTANTS
    k = k  sly = sly  word = word  key0 = key0  key1 = key1  key2 = key2
    Default = Default  Closed = Closed
    Undefined = Undefined  Null = Null
    Keys <- MCKeys
    Values <- MCValues
    Payloads <- MCValues
    Pack <- MCPack
    Unpack <- MCPack
    Wide = {}
    MaxEntries = 1
    Policy = "lru"
    IntBits = 2
    BloomFilter = FALSE
    Hash <- MCHash
    TTLs = {0, 1}
    DefaultTTL = 0
    Deltas = {1}
    MaxAccess = 20
    MaxTime = 1
    Sockets = {s1}
    Topics = {"cache-events"}
    Messages <- MCMessages
    Uploads <- MCUploads
    MaxUploads = 1
    FullKey <- MCFullKey
    Plain = {k}
    RateWindow = 0
    RateMax = 1
    Conns = {c1}
    Commands <- MCCommands
    MaxCommands = 2
PROPERTY NoAmbiguity
