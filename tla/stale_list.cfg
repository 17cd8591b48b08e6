CONSTANTS
    Devices <- MCDevices
    Ids = {i1, i2}
    NoRow = NoRow
    Skew <- NoSkew
    StartTime = 1
    MaxTime = 2
    MaxEdits = 2
    MaxAttempts = 1
    MaxFaults = 0
SPECIFICATION Spec
INVARIANT ViewMatchesRepo
