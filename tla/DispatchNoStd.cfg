SPECIFICATION Spec
CONSTANTS
    t1 = t1
    t2 = t2
    Threads <- MCThreads
    MaxCalls = 2
    Builds <- MCBuilds
INVARIANT NoStdIsScalar
CHECK_DEADLOCK FALSE
