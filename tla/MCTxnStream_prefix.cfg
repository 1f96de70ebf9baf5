CONSTANTS
    TXN_BUF_SIZE = 2
    ZIL_MAX_TXN_SIZE = 4
    WORD = 14
    Totals <- MCWithinLimit
    KeyIndices = {0, 1, 6}
    MaxEmpty = 1
SPECIFICATION Spec
INVARIANT SignsTheTxn
