SPECIFICATION Spec
CONSTANTS
    N = 3
    Inf <- MCInf
    Topologies <- Sparse3
    Solution <- MCSolution
    BufferSize = 1
    FirstOption = FALSE
    Chunk = 1
INVARIANTS
    TypeOK
    NoUnderestimate
    HeardMeansKnown
    QuietMeansSolved
    Agreement
    ClosedWhenQuiet
    RepliesComplete
    NoCircularWait
PROPERTY
    EpochsImprove
