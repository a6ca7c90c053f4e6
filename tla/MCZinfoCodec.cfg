CONSTANTS
    GZHDR = 10
    WINSIZE = 3
    UINT = 65536
    NULL = NULL
    JUNK = JUNK
    Blocks <- MCBlocks
    Inputs <- MCInputsAll
    Built <- MCBuilt
    Offsets <- MCOffsets
SPECIFICATION Spec
INVARIANTS
    TypeOK
    BlobOfIndex
    BlobRoundTrip
    BlobReadInBounds
    IndexRoundTrip
    BlobSized
