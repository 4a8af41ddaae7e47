\* A buffer ends inside a multibyte character of a value.
CONSTANTS
    Docs <- Utf8NameDocs
    Again = {}
    StackInit = 8
    AttStep = 2
    AllocMayFail = {}
    HookResults = {"ok"}
    Uncut = {}
    ResumeAfterError = FALSE
    MaxResets = 0
SPECIFICATION Spec
PROPERTIES ImplementsTokenizer
CHECK_DEADLOCK FALSE
