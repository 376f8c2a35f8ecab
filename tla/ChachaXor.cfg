SPECIFICATION Spec
CONSTANTS
    Backends = {"soft", "sse2", "neon", "avx2", "avx512"}
    MaxBlocks = 40
    CtrMod = 64
INVARIANT AsScalar
INVARIANT WholeBlocksRaw
CHECK_DEADLOCK FALSE
