SPECIFICATION Spec
CONSTANTS
    Items = {i1, i2}
    i1 = i1
    i2 = i2
    int = int
    bool = bool
    Schemas = {int, bool}
    Fits = {int}
    Events <- SomeEvents
    InitFiles <- FullFiles
    WriteFaults = TRUE
    Crashes = TRUE
CHECK_DEADLOCK FALSE
INVARIANTS
    TypeOK
    FileFollowsMemory
    ItemsStayLoadable
PROPERTIES
    OthersUntouched
