SPECIFICATION Spec
CONSTANTS
    AadLens = {0, 1, 15, 16, 17, 35}
    TextLens = {0, 1, 15, 16, 17, 63, 64, 65, 80, 111, 112, 113, 127, 128, 191, 192, 193, 256, 300, 335}
INVARIANT NothingDropped
INVARIANT NothingPending
CHECK_DEADLOCK FALSE
