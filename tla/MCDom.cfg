\* Two documents one after the other, in buffers of any size.
CONSTANTS
    Docs <- SomeDocs
    FileBuf = 2
    ReadMayFail = TRUE
    NodesMayFail = FALSE
    MaxDocs = 2
SPECIFICATION Spec
INVARIANTS TreeIsDocument TreesOwned LoadTellsAll
CHECK_DEADLOCK FALSE
