SPECIFICATION Spec
CONSTANTS
    WORD_BITS = 12
    SIZE_MAX = 4095
    PAGE_SIZE = 128
    MapAddrs = {384}
    NUM_CACHES = 4
    MAX_ORDER = 7
    OFFSET_MAX = 1023
    CtorSizes = {0, 1024}
    Sizes = {0, 20, 300}
    Aligns = {3, 8, 64, 128}
INVARIANTS SlabsTrue NoLeak SlabsRecognised
PROPERTIES ContractSpec
CHECK_DEADLOCK FALSE
