SPECIFICATION IfaceLiveSpec
CONSTANTS
    Urls <- AllUrls
    DevFiles <- LinkedPort
    StartFaults = TRUE
    Sources <- AllSources
    SlaveValues <- TwoValues
INVARIANTS
    IfaceTypeOK
    LinkOrTimer
    SocketsNotLeaked
    ReadsWhatSlaveKeeps
PROPERTIES
    Reconnects
