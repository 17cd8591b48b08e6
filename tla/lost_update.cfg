CONSTANTS
    i1 = i1
    i2 = i2
    Devices <- MCDevices
    Ids <- MCIds
    NoRow = NoRow
    BadId = BadId
    Batches <- MCBatches
    Threads = {t1, t2}
    MaxRequests = 4
    MaxRestarts = 1
SPECIFICATION Spec
CHECK_DEADLOCK FALSE
INVARIANT NewestWriteWins
