CONSTANTS
    shared = shared  other = other  ann = ann  bob = bob  word = word
    Nothing = Nothing
    Keys = {shared, other}
    Values <- MCValues
    MaxEntries = 2
    Policy = "lru"
    IntBits = 1
    Clients = {ann, bob}
    Shared = shared
    Increments <- MCDeltas
    AccessBound = 4
SPECIFICATION ClientsSpec
INVARIANT SeenIsCurrent
PROPERTY NoLostUpdate
