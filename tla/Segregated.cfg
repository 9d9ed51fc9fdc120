SPECIFICATION Spec
CONSTANTS
    WORD_BITS = 10
    SIZE_MAX = 1023
    PAGE_SIZE = 64
    MapAddrs = {320}
    NUM_BUCKETS = 3
    OFFSET_MAX = 63
    CtorSizes = {0, 100, 200, 600}
    Sizes = {0, 1, 20, 31, 60, 100}
    Aligns = {0, 1, 2, 8, 32, 64}
INVARIANTS HeadersTrue BucketsTrue DataInBlock CoalescesFully
PROPERTIES ContractSpec
CHECK_DEADLOCK FALSE
