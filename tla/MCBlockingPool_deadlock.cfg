\* The ratio of the code (C = P / 4), three clients that do not wait.
SPECIFICATION SafeSpec
CONSTANTS
    r1 = r1
    r2 = r2
    r3 = r3
    r4 = r4
    Requests <- FourRequests
    MaxBlockingThreads = 4
    MaxConcurrentRequests = 1
    MaxAbandoned = 3
SYMMETRY Symmetry
INVARIANT NoCircularWait
