SPECIFICATION Spec
CONSTANTS
    WORD_BITS = 11
    SIZE_MAX = 2047
    PAGE_SIZE = 64
    MapAddrs = {192}
    MAX_ORDER = 5
    OFFSET_MAX = 63
    CtorSizes = {0, 200, 1500}
    Sizes = {0, 1, 20, 60, 600, 2046}
    Aligns = {0, 3, 4, 32, 64}
INVARIANTS Partition HeadersTrue BlockHoldsData MergesFully
PROPERTIES ContractSpec
CHECK_DEADLOCK FALSE
