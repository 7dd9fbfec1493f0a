SPECIFICATION Spec
CONSTANTS
    N = 4
    Inf <- MCInf
    Topologies <- Path4
    Solution <- MCSolution
    BufferSize = 0
    FirstOption = FALSE
    Chunk = 4
INVARIANTS
    NoUnderestimate
    HeardMeansKnown
    QuietMeansSolved
    Agreement
    ClosedWhenQuiet
    NoTornRead
    NoCircularWait
PROPERTY
    EpochsImprove
