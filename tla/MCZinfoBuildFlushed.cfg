CONSTANTS
    GZHDR = 10
    WINSIZE = 3
    CHUNK = 8
    INITSIZE = 8
    Spans = {0, 2}
    NULL = NULL
    ShrinkOutcomes = {TRUE}
    Blocks <- MCBlocksFlushedFirst
    Files <- MCFiles

SPECIFICATION Spec

INVARIANT
    CheckpointsOrdered
