\* Three rules, two packets, two hook functions.
CONSTANTS
    Packets <- SomePackets
    ArgLists <- SomeArgLists
    Hooks = {h1, h2}
    RemovesAndPasses = FALSE
    MaxDepth = 1
    MaxRules = 3
    MaxPackets = 2
SPECIFICATION Spec
INVARIANTS ListInOrder NoUseOfFreed
PROPERTIES ImplementsRouting
SYMMETRY Alike
CHECK_DEADLOCK FALSE
