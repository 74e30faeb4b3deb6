SPECIFICATION LiveSpec
CONSTANTS
    Items = {i1}
    i1 = i1
    Values = {0, 1, 2}
    EventConfigs <- OnlyLower
    ValueType = "UINT"
    NoValue = NoValue
    PublishFaults = FALSE
    ReadFaults = FALSE
PROPERTIES
    AlarmReported
