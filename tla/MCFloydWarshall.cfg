SPECIFICATION Spec
CONSTANTS
    N = 3
    Inf <- MCInf
    Files <- MCFiles
    Shortest <- MCShortest
INVARIANTS
    TypeOK
    DoneMeansClosed
    NeverTooShort
    DoneMeansShortest
