CONSTANTS
    TXN_BUF_SIZE = 2
    ZIL_MAX_TXN_SIZE = 4
    WORD = 14
    Totals <- MCTotals
    KeyIndices = {0, 1, 6}
    MaxEmpty = 1
SPECIFICATION FairSpec
INVARIANTS
    TypeOK
    NeverRunsOut
    HashFollowsDecoder
    SignsWhatWasDecoded
    RefusedIfTooLarge
    RecursionBounded
PROPERTIES
    GivesInput
    StreamEnds
