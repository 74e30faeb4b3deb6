SPECIFICATION Spec
CONSTANTS
    Items = {i1, i2}
    i1 = i1
    i2 = i2
    Values = {0, 1, 2}
    EventConfigs <- ChangeConfigs
    ValueType = "INT"
    NoValue = NoValue
    PublishFaults = FALSE
    ReadFaults = TRUE
SYMMETRY ItemSymmetry
INVARIANTS
    TypeOK
    PollAlive
    TimersMatchConfig
    BehindOnlyAtSentValue
PROPERTIES
    CaughtUpStays
