CONSTANTS
    Keys <- MCOneKey
    Msgs <- MCMoreMsgs
    BadMsgs <- MCBadMsgs
    EarlyMsgs <- MCEarlyMsgs
    NoKey = 0
    NoMsg = "none"
    MaxChunks = 1
    HasNbgl = TRUE
    FinishMayFail = FALSE
    MaxFaults = 1
    MaxAbandons = 1
SPECIFICATION FairSpec
INVARIANT ContextMatchesScreen
PROPERTIES
    KeepsPromise
    RequestsSettle
    ApprovalsClose
