SPECIFICATION LiveSpec
CONSTANTS
    Items = {i1}
    i1 = i1
    Values = {0, 1, 2}
    EventConfigs <- AlarmConfigs
    ValueType = "INT"
    NoValue = NoValue
    PublishFaults = TRUE
    ReadFaults = TRUE
PROPERTIES
    TimedReported
    AlarmReported
