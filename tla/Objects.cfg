SPECIFICATION Spec
CONSTANTS
    WORD_BITS = 4
    SIZE_MAX = 15
    PAGE_SIZE = 2
    MapAddrs = {2}
    BaseStart = 2
    BaseTotal = 10
    ELEM_SIZE = 2
    Counts = {0, 1, 2, 3, 9}
    MAX_DEPTH = 3
INVARIANTS OwnedOnce ObjectsMatchMemory
PROPERTIES CallsEnd
