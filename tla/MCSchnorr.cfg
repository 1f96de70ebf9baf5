CONSTANTS
    N = 7
    NONCE_EXTRA = 2
    HARDENED = 2
    Seed <- MCSeed
    INDICES = {0, 1, 2}
    MESSAGES <- MCMessages
    CX_MAX_TRIES = 3
SPECIFICATION Spec
INVARIANTS
    TypeOK
    SignatureVerifies
    ReturnsSigned
    NonceIsCommitted
PROPERTY SigningEnds
