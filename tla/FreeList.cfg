SPECIFICATION Spec
CONSTANTS
    WORD_BITS = 9
    SIZE_MAX = 511
    PAGE_SIZE = 32
    MapAddrs = {192}
    CtorSizes = {0, 150, 500}
    Sizes = {0, 3, 24, 505}
    Aligns = {0, 1, 3, 32}
INVARIANTS SortedAndCoalesced HeadersIntact Tiled
PROPERTIES ContractSpec
CHECK_DEADLOCK FALSE
