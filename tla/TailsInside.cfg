SPECIFICATION Spec
CONSTANTS
    Kernels <- AllKernels
    Tails = {0, 1, 7, 8, 9, 15}
    Bases = {1, 5, 48}
    CtrMod = 64
INVARIANT TailsInside
CHECK_DEADLOCK FALSE
