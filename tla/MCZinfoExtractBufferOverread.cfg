CONSTANTS
    GZHDR = 10
    WINSIZE = 3
    CHUNK = 8
    UINT = 256
    Blocks <- MCBlocks
    Indexes <- MCIndexes
    Offsets <- MCOffsets
    Corrupt <- MCCorrupt
    Lens <- MCLens
    DataEnds <- MCDataEnds

SPECIFICATION Spec

INVARIANT
    BufferReadInBounds
