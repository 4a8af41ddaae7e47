\* A program that keeps the Documents it iterates over, and none from on_stanza.
CONSTANTS
    Docs = {d1, d2}
    Iters = {i1}
    Trees = {t1}
    None = None
    Careless = {"text", "raise"}
    Sources <- SomeSources
    Names <- SomeNames
    MaxChanges = 2
SPECIFICATION Spec
INVARIANTS NoUseOfFreed TreeLivesWithDocuments DeletedStaysDeleted IterationInOrder
SYMMETRY Alike
CHECK_DEADLOCK FALSE
