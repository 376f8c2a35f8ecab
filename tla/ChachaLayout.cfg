SPECIFICATION Spec
CONSTANTS
    Kernels <- AllKernels
    Tails <- AllTails
    Bases = {1, 5, 48}
    CtrMod = 64
INVARIANT FeedForwardAligned
INVARIANT BlocksInOrder
INVARIANT StoresCoverMessage
PROPERTY RoundsAreScalar
CHECK_DEADLOCK FALSE
