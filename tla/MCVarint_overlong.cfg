CONSTANTS
    G = 3
    W = 5
    L = 10
    P = 4
    MAX_BYTES = 7
SPECIFICATION Spec
INVARIANT AcceptedIsExact
CHECK_DEADLOCK FALSE
