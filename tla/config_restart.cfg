SPECIFICATION Spec
CONSTANTS
    Items = {i1}
    i1 = i1
    int = int
    bool = bool
    Schemas = {int}
    Fits = {int}
    Events <- SomeEvents
    InitFiles <- FullFiles
    WriteFaults = FALSE
    Crashes = FALSE
CHECK_DEADLOCK FALSE
INVARIANTS
    StartsAgain
