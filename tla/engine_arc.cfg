CONSTANTS
    k1 = k1  k2 = k2  k3 = k3  word = word
    Keys = {k1, k2, k3}
    Values <- MCValues
    MaxEntries = 2
    Policy = "arc"
    IntBits = 1
    KeyLen <- MCKeyLen
    ValueLen <- MCValueLen
    Deltas <- MCDeltas
    MaxAccess = 5
    MaxPuts = 4
SPECIFICATION Spec
INVARIANTS TypeOK Consistent MemoryExact PutsAccountForEntries
PROPERTIES VersionNamesValue OnlyTheTailIsEvicted
