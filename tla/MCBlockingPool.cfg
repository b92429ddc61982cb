\* Safety with one closure that may outlive its client, C + A < P tight.
SPECIFICATION SafeSpec
CONSTANTS
    r1 = r1
    r2 = r2
    r3 = r3
    r4 = r4
    Requests <- FourRequests
    MaxBlockingThreads = 3
    MaxConcurrentRequests = 1
    MaxAbandoned = 1
SYMMETRY Symmetry
INVARIANTS
    TypeOK
    PermitAccounting
    QueueMatchesTasks
    LeavesHaveOwners
    NoCircularWait
    HandlerDemandBounded
