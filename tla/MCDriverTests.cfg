SPECIFICATION FairSpec
CONSTANTS
    Thread <- MCThread
    Drivers <- MCDrivers
    Jobs <- MCJobs
    NoJob = "none"
INVARIANTS
    TypeOK
    TestsPass
    HandledOnce
    DestroyedUnused
    PeeksUnraced
PROPERTY Terminates
