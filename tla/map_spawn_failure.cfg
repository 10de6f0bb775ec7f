\* pthread_create may fail for any of the threads.
SPECIFICATION FairSpec
CONSTANTS
    MaxLen = 6
    MaxProcs = 3
    MaxChunk = 2
    ChunkCap = 2
    SpawnMayFail = TRUE
INVARIANTS
    LossConfined
PROPERTIES
    Termination
