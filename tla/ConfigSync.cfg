CONSTANTS
    Masks = {m1, zero}
    ValidMasks = {m1}
    ZeroMask = zero
    Offsets = {0, 1}
    Unit = 4
    Faults = TRUE
SPECIFICATION FairConfigSpec
INVARIANT ConfigTypeOK
INVARIANT StaleOnlyIfSwallowed
PROPERTY AckMeansSaved
PROPERTY ImplementsSaving
PROPERTY SaveRetried
