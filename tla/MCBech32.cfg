CONSTANTS
    DIGESTS <- MCDigests
    MISTAKES <- MCMistakes
    PUB_ADDR_BYTES_LEN = 20
    hrp <- MCHrp
SPECIFICATION Spec
INVARIANTS
    FitsBuffer
    ReadsBack
    MistakeIsCaught
CHECK_DEADLOCK FALSE
