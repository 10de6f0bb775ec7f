\* Any machine with up to 3 processors, any caller's settings; threads can always be created.
SPECIFICATION FairSpec
CONSTANTS
    MaxLen = 7
    MaxProcs = 3
    MaxChunk = 3
    ChunkCap = 2
    SpawnMayFail = FALSE
INVARIANTS
    NoElementTwice
    NoneLeftRunning
    AllMapped
PROPERTIES
    ImplementsParallelMap
