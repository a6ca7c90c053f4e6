CONSTANTS
    GZHDR = 10
    WINSIZE = 3
    UINT = 256
    NULL = NULL
    JUNK = JUNK
    Blocks <- MCBlocks
    Inputs <- Valid
    Built <- MCBuilt
    Offsets <- MCOffsets
SPECIFICATION Spec
INVARIANTS
    BlobSized
