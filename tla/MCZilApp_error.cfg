CONSTANTS
    Keys <- MCOneKey
    Msgs <- MCMsgs
    BadMsgs <- MCBadMsgs
    EarlyMsgs <- MCNoMsgs
    NoKey = 0
    NoMsg = "none"
    MaxChunks = 1
    HasNbgl = FALSE
    FinishMayFail = FALSE
    MaxFaults = 1
    MaxAbandons = 1
SPECIFICATION FairSpec
PROPERTY ErrorIsSentNext
