SPECIFICATION SpecThreads
CONSTANTS
    j1 = j1
    j2 = j2
    t1 = t1
    t2 = t2
    t3 = t3
    Jobs <- MCJobs
    Thread <- MCThread
    Nobody = Nobody
    NoJob = NoJob
    Garbage = Garbage
    Capacities <- MCCapacities
    SizeMax <- MCSizeMax
    PtrSize <- MCPtrSize
SYMMETRY Symmetric
INVARIANT ThreadsInBounds
PROPERTY FifoForAll
