SPECIFICATION Spec
CONSTANTS
    N = 8
    sentinel = sentinel
    Nodes <- MCNodes
    SizesAt <- MCSizesAt
INVARIANTS RedBlackTree SearchTree
PROPERTIES BestFitSpec
