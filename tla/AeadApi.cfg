SPECIFICATION Spec
CONSTANT Sessions <- MCSessions
CONSTANT Lengths = {0, 3}
CONSTANT TagLen = 2
CONSTANT Block = 2
CONSTANT CtrMod = 3
CONSTANT MaxCalls = 4
INVARIANT TypeOK
INVARIANT OpenedWasSealed
INVARIANT NoKeystreamTwice
INVARIANT MaskedUnlessReused
PROPERTY SealedOpens
PROPERTY OnlyTagsDropped
PROPERTY InsideFootprint
PROPERTY RetryUndoesSeal
CHECK_DEADLOCK FALSE
