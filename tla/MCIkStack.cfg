\* Strings and structures that leave chunks exactly full or one byte short.
CONSTANTS
    Alignment = 2
    StackSize = 24
    HeaderSize = 40
    ChunkSizes <- SomeChunkSizes
    BlockSizes <- SomeBlockSizes
    Texts <- SomeTexts
    MallocMayFail = TRUE
    MaxCalls = 4
SPECIFICATION Spec
INVARIANTS NoOverflow BlocksApart StatExact AllFreed
PROPERTIES ImplementsPool
CHECK_DEADLOCK FALSE
