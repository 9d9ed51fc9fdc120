SPECIFICATION Spec
CONSTANTS
    WORD_BITS = 10
    SIZE_MAX = 1023
    PAGE_SIZE = 128
    MapAddrs = {256}
    CtorSizes = {0, 300, 1000}
    Sizes = {0, 1, 60, 250, 1007}
    Aligns = {0, 3, 1, 64}
INVARIANTS TagsTrue FreeSpaceTrue DataInBlock
PROPERTIES ContractSpec
CHECK_DEADLOCK FALSE
