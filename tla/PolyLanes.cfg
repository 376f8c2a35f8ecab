SPECIFICATION Spec
CONSTANTS
    Backends = {"soft", "avx2", "neon", "ifma"}
    MaxBlocks = 44
    MaxWindows = 6
INVARIANT TypeOK
INVARIANT TagIsHorner
INVARIANT LanesDealt
PROPERTY CountsAgree
PROPERTY ImplementsHorner
CHECK_DEADLOCK FALSE
