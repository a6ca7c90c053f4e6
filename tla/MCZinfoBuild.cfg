CONSTANTS
    GZHDR = 10
    WINSIZE = 3
    CHUNK = 8
    INITSIZE = 8
    Spans = {0, 1, 2}
    NULL = NULL
    ShrinkOutcomes = {TRUE}
    Blocks <- MCBlocks
    Files <- MCFiles

SPECIFICATION Spec

INVARIANTS
    TypeOK
    CheckpointsResumable
    MemorySafe

PROPERTIES
    BuildRefinesSpec
