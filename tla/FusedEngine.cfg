SPECIFICATION Spec
CONSTANTS
    Calls <- MCCalls
    Backends <- AllOps
    CtrMod = 64
INVARIANT TypeOK
INVARIANT StreamInOrder
INVARIANT ContractsKept
INVARIANT CallComplete
INVARIANT CounterMatchesCursor
INVARIANT CursorOrder
PROPERTY KeystreamOnce
PROPERTY SealLagsOneBatch
PROPERTY Implements
PROPERTY Terminates
CHECK_DEADLOCK FALSE
