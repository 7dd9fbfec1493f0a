SPECIFICATION FairSpec
CONSTANTS
    N = 3
    Inf <- MCInf
    Topologies <- Path3
    Solution <- MCSolution
    BufferSize = 1
    FirstOption = TRUE
    Chunk = 3
PROPERTY
    Terminates
