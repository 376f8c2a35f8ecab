SPECIFICATION Spec
CONSTANTS
    t1 = t1
    t2 = t2
    Threads <- MCThreads
    MaxCalls = 2
    Builds <- MCBuilds
INVARIANTS TypeOK OneBackend OnlyRunnable ProbesOnce Widest
PROPERTIES PublishedForGood AllCallsMade
CHECK_DEADLOCK FALSE
