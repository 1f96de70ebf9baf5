CONSTANTS
    PUB_ADDR_BYTES_LEN = 2
    ZIL_AMOUNT_GASPRICE_BYTES = 2
    TXN_DISP_CODE_MAX_LEN = 3
    TXN_DISP_DATA_MAX_LEN = 3
    RAW_VALUE_LEN = 1
    FIXED64_LEN = 1
    FIXED32_LEN = 1
    TAGS = {1, 5, 8}
    MAX_VARINT = 1
    MAX_TXN = 7
SPECIFICATION Spec
INVARIANT SimpleFlowShowsAll
CHECK_DEADLOCK FALSE
