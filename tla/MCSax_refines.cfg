\* Every document, every way of cutting it, a stack that moves often, failing
\* allocations, and a reset at any byte with another document after it.
CONSTANTS
    Docs <- AgreedDocs
    Again <- MemoryDocs
    StackInit = 2
    AttStep = 2
    AllocMayFail = {"init", "expand", "atts"}
    HookResults = {"ok"}
    Uncut <- Utf8NameDocs
    ResumeAfterError = FALSE
    MaxResets = 1
SPECIFICATION FairSpec
PROPERTIES ImplementsTokenizer ParseReturns
CHECK_DEADLOCK FALSE
