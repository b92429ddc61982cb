\* The ratio of the code (C = P / 4), every client waiting for its answer.
SPECIFICATION SafeSpec
CONSTANTS
    r1 = r1
    r2 = r2
    r3 = r3
    r4 = r4
    Requests <- FourRequests
    MaxBlockingThreads = 4
    MaxConcurrentRequests = 1
    MaxAbandoned = 0
SYMMETRY Symmetry
INVARIANT PeakDemand
