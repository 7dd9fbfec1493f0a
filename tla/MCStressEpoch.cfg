SPECIFICATION ScheduledSpec
CONSTANTS
    N = 5
    Inf <- MCInf
    Topologies <- OneWayWeights
    Solution <- MCSolution
    BufferSize = 1
    FirstOption = TRUE
    Chunk = 5
INVARIANT
    Agreement
