SPECIFICATION Spec
CONSTANTS
    WORD_BITS = 8
    SIZE_MAX = 255
    PAGE_SIZE = 32
    MapAddrs = {96}
    CtorSizes = {0, 40, 230}
    Sizes = {0, 1, 8, 13, 250}
    Aligns = {0, 1, 3, 16}
INVARIANTS HeaderChain OffsetIsTop
PROPERTIES ContractSpec
CHECK_DEADLOCK FALSE
