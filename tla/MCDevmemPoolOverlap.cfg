SPECIFICATION FairSpec
CONSTANTS
    t1 = t1
    t2 = t2
    c1 = c1
    c2 = c2
    Thread <- MCThread
    Loader = t1
    Chunk <- MCChunk
    ChunkSize = 2
    DEVMEM_CHUNKS_RESERVE = 1
    MaxBatch = 2
    MaxCalloc = 2
    Concurrent = TRUE
    Nobody = Nobody
    NoChunk = NoChunk
    NoPage = NoPage
INVARIANTS
    CountersCoverOutstanding
PROPERTY ReleaseHangsOnlyOnHeldPage
CHECK_DEADLOCK FALSE
