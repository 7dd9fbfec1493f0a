SPECIFICATION AnswersSpec
CONSTANTS
    N = 3
    Inf <- MCInf
    Topologies <- Triangle
    Solution <- MCSolution
    BufferSize = 1
    FirstOption = TRUE
    Chunk = 3
INVARIANTS
    HeardMeansKnown
    QuietMeansSolved
    AgreementUnlessLapped
    ClosedWhenQuietUnlessLapped
    EpochsPaid
