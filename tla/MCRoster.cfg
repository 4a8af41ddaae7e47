\* Sends and receives are partial, addresses are refused, the server is silent or closes.
CONSTANTS
    MaxAddrs = 2
    Room = 3
    BufLen = 3
    SelectMayFail = TRUE
    Options <- SomeOptions
    OptTimeout = 2
    Offers <- SomeOffers
SPECIFICATION FairSpec
INVARIANTS RestoresBackup NothingInClear
PROPERTIES ImplementsPipe SessionEnds
CHECK_DEADLOCK FALSE
