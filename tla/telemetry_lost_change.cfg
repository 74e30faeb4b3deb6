SPECIFICATION LiveSpec
CONSTANTS
    Items = {i1}
    i1 = i1
    Values = {0, 1}
    EventConfigs <- OnlyChange
    ValueType = "INT"
    NoValue = NoValue
    PublishFaults = FALSE
    ReadFaults = FALSE
PROPERTIES
    ChangeReported
