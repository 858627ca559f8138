CONSTANTS
    NInodes = 3
    NBlocks = 2
    InodeBlocks = 2
    CellsPerBlock = 2
    Fds = {2}
    Names = {a, b}
    MaxDepth = 2
    MaxPos = 1
    MaxWrite = 2
    MaxSize = 3
    Payload = {"data"}
    CarefulNames = TRUE
    CarefulFds = TRUE
SPECIFICATION Spec
SYMMETRY NameSymmetry
INVARIANTS OnePath SizeCountsEntries NoLeak
PROPERTIES NamesFrame FilesFrame
CHECK_DEADLOCK FALSE
