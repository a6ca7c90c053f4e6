CONSTANTS
    GZHDR = 10
    WINSIZE = 4
    UINT = 256
    NULL = NULL
    JUNK = JUNK
    Blocks <- MCBlocks
    Inputs <- MCInputsWrap
    Built <- MCBuilt
    Offsets <- MCOffsets
SPECIFICATION Spec
INVARIANTS
    BlobReadInBounds
