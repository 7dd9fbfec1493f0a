SPECIFICATION Spec
CONSTANTS
    N = 4
    Inf <- MCInf
    Topologies <- Kite
    Solution <- MCSolution
    BufferSize = 1
    FirstOption = TRUE
    Chunk = 4
INVARIANT
    NoTornRead
