CONSTANTS
    Devices <- MCDevices
    Ids = {i1}
    NoRow = NoRow
    Skew <- NoSkew
    StartTime = 1
    MaxTime = 2
    MaxEdits = 4
    MaxAttempts = 2
    MaxFaults = 0
SPECIFICATION Spec
INVARIANT NothingBehindCursor
