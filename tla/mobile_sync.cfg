CONSTANTS
    Devices <- MCDevices
    Mobiles = {2}
    Ids = {i1}
    NoRow = NoRow
    Skew <- NoSkew
    StartTime = 1
    MaxTime = 2
    MaxEdits = 2
    MaxAttempts = 2
    MaxFaults = 1
SPECIFICATION StoreSpec
INVARIANTS OnlyLateWritesAreMissed
PROPERTIES UnpushedEditSurvives ImplementsLww EnginesConverge
