CONSTANTS
    Calls <- MCCalls
    BufSize = 2
SPECIFICATION Spec
CHECK_DEADLOCK FALSE
INVARIANTS WholeOrNothing ArrivedAnswerUnderstood RequestsAreJson StampsSurvive
