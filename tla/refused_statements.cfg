CONSTANTS
    Devices <- MCDevices
    Ids = {i1, i2}
    NoRow = NoRow
    Skew <- OneAhead
    StartTime = 1
    MaxTime = 2
    MaxEdits = 2
    MaxAttempts = 1
    MaxFaults = 1
SPECIFICATION ErrorSpec
SYMMETRY IdSymmetry
INVARIANTS OnlyLateWritesAreMissed
PROPERTIES OnlyRefusedReadsLoseEdits
