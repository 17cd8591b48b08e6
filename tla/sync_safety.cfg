CONSTANTS
    Devices <- MCDevices
    Mobiles = {}
    Ids = {i1}
    NoRow = NoRow
    Skew <- OneAhead
    StartTime = 1
    MaxTime = 2
    MaxEdits = 4
    MaxAttempts = 1
    MaxFaults = 1
SPECIFICATION StoreSpec
INVARIANTS TypeOK VersionsIdentifyWrites OnlyLateWritesAreMissed
PROPERTIES UnpushedEditSurvives SyncNeverRegresses RepushIdempotent ImplementsLww
