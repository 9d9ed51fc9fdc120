SPECIFICATION Spec
CONSTANTS
    WORD_BITS = 8
    SIZE_MAX = 255
    PAGE_SIZE = 32
    MapAddrs = {96}
    ChunkSizes = {0, 3, 10, 65, 250}
    ChunkAligns = {0, 4, 16}
    ChunkCounts = {0, 1, 4}
    Sizes = {0, 5, 8, 20}
    Aligns = {0, 1, 3, 16}
INVARIANTS FreeLinks NothingLost
PROPERTIES ContractSpec
CHECK_DEADLOCK FALSE
