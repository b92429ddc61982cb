\* Liveness and the contract of admission control, with C + A < P tight,
\* until the process has ended.
SPECIFICATION SSpec
CONSTANTS
    r1 = r1
    r2 = r2
    r3 = r3
    Requests <- ThreeRequests
    MaxBlockingThreads = 3
    MaxConcurrentRequests = 1
    MaxAbandoned = 1
INVARIANT GracefulExit
PROPERTIES
    EveryClosureEnds
    ImplementsAdmission
    ShutdownCompletes
\* The process stops when it has exited.
CHECK_DEADLOCK FALSE
