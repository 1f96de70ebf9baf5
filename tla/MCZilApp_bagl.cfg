CONSTANTS
    Keys <- MCKeys
    Msgs <- MCMsgs
    BadMsgs <- MCBadMsgs
    EarlyMsgs <- MCGoodMsgs
    NoKey = 0
    NoMsg = "none"
    MaxChunks = 2
    HasNbgl = FALSE
    FinishMayFail = FALSE
    MaxFaults = 1
    MaxAbandons = 1
SPECIFICATION Spec
INVARIANTS
    TypeOK
    NoStrayReply
    NoSilentWait
    ContextMatchesScreen
    OneErrorPerCause
    ChunksInStep
PROPERTY KeepsPromise
