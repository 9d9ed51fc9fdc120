SPECIFICATION Spec
CONSTANTS
    WORD_BITS = 8
    SIZE_MAX = 255
    PAGE_SIZE = 32
    MapAddrs = {64}
    BaseStart = 64
    BaseTotal = 40
    Sizes = {0, 8, 13}
    Aligns = {8}
    CURR_BOUND = 60
INVARIANTS BooksBalance
PROPERTIES PeakIsHighWater
CHECK_DEADLOCK FALSE
