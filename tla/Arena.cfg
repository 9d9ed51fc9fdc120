SPECIFICATION Spec
CONSTANTS
    WORD_BITS = 8
    SIZE_MAX = 255
    PAGE_SIZE = 16
    MapAddrs = {48}
    CtorSizes = {0, 20, 250}
    Sizes = {0, 5, 9, 250}
    Aligns = {0, 1, 3, 8, 32}
INVARIANTS Pow2IsMaskTest RoundingIsLeast LiveBehindOffset
PROPERTIES ContractSpec
CHECK_DEADLOCK FALSE
