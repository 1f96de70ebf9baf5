CONSTANTS
    W = 6
    BYTE = 3
    BASE = 10
    QA_ZIL_SHIFT = 2
    ZIL_UINT128_BUF_LEN = 7
SPECIFICATION Spec
INVARIANTS
    TypeOK
    DivisionIsExact
    EveryAmountFits
    ShownIsSigned
PROPERTY EveryAmountIsShown
CHECK_DEADLOCK FALSE
