CONSTANTS
    NInodes = 3
    NBlocks = 2
    InodeBlocks = 2
    CellsPerBlock = 1
    Fds = {2}
    Names = {a}
    MaxDepth = 2
    MaxPos = 0
    MaxWrite = 1
    MaxSize = 2
    Payload = {"entry"}
    CarefulNames = FALSE
    CarefulFds = FALSE
SPECIFICATION Spec
INVARIANTS TypeOK BlocksExclusive CountsExact
CHECK_DEADLOCK FALSE
