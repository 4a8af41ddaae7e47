\* Every sequence of five calls.
CONSTANTS
    Names <- SomeNames
    AttribNames <- SomeAttribNames
    Texts <- SomeTexts
    AllocMayFail = {"text"}
    MoveHidden = FALSE
    MaxCalls = 5
SPECIFICATION Spec
INVARIANTS LinksAgree StringIsDocument CopyIsEqual
PROPERTIES ImplementsTree
CHECK_DEADLOCK FALSE
