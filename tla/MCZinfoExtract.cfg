CONSTANTS
    GZHDR = 10
    WINSIZE = 3
    CHUNK = 8
    UINT = 256
    Lens <- MCLens
    Blocks <- MCBlocks
    Indexes <- MCIndexes
    Offsets <- MCOffsets
    Corrupt <- MCCorrupt
    FileLens <- MCFileLens

SPECIFICATION Spec

INVARIANTS
    TypeOK
    ExtractCorrect

PROPERTIES
    ExtractTerminates
