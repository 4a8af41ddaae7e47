\* Failing allocations, failing and resetting hooks, two more documents.
CONSTANTS
    Docs <- HookDocs
    Again <- HookDocs
    StackInit = 2
    AttStep = 2
    AllocMayFail = {"init", "expand", "atts"}
    HookResults = {"ok", "error", "reset"}
    Uncut = {}
    ResumeAfterError = FALSE
    MaxResets = 1
SPECIFICATION Spec
INVARIANTS NoUndefinedBehaviour CleanBetweenTags
CHECK_DEADLOCK FALSE
