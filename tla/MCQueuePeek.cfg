SPECIFICATION Spec
CONSTANTS
    j1 = j1
    j2 = j2
    Jobs <- MCJobs
    NoJob = NoJob
    Garbage = Garbage
    Capacities <- MCCapacities
    SizeMax <- MCSizeMax
    PtrSize <- MCPtrSize
INVARIANT
    PeekShowsQueuedJob
