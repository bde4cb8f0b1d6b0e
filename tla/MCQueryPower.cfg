CONSTANTS
    Wire = {"b", "x", "v", "bs", "xs", "ys"}
    Width <- MCWidth
    Size <- MCSize
    Calls <- MCCalls
    MaxRounds = 3
    InitialPlain <- MCInitialPlain
    InitialMask <- MCInitialMask
    Prf <- MCPrf
    ByteBits = 3
    BlockBytes = 2
    Batch = 2
    EllIn = 3
    EllOut = 2
    Bfs = 1
    ExtraSplit = 1
    Msb = 2
    CoreCounts = {1, 2}
    H <- MCH
    PrgKeys = {0, 1}
    Roots <- MCRoots
    Points <- MCPoints
    Ranges <- MCRanges
    Sizes = {1, 2, 3, 4, 5, 6, 7, 8}
    Parts = {"query"}
    MCBloomSizes = {8}
SPECIFICATION MCSpec
CHECK_DEADLOCK FALSE
INVARIANT QueryDoesNotThrow
