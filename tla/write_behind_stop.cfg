CONSTANTS
    db1 = db1  db2 = db2
    Databases = {db1, db2}
    MaxBufferSize = 2
    RetryAttempts = 1
    MaxWrites = 4
SPECIFICATION BufferSpec

INVARIANT FinalFlushDrains
CHECK_DEADLOCK FALSE
