CONSTANTS
    PUB_ADDR_BYTES_LEN = 2
    ZIL_AMOUNT_GASPRICE_BYTES = 2
    TXN_DISP_CODE_MAX_LEN = 3
    TXN_DISP_DATA_MAX_LEN = 3
    RAW_VALUE_LEN = 1
    FIXED64_LEN = 1
    FIXED32_LEN = 1
    TAGS = {1, 3, 4, 5, 6, 8, 9, 11}
    MAX_VARINT = 1
    MAX_TXN = 8
SPECIFICATION Spec
INVARIANTS
    TypeOK
    IterInStep
    ShownIsMeant
PROPERTIES
    TakesInput
    DecodingEnds
CHECK_DEADLOCK FALSE
