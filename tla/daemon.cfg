SPECIFICATION DaemonSpec
CONSTANTS
    Ids = {a, b}
    a = a
    b = b
    None = None
    Absent = Absent
    StoreFaults = FALSE
    StrictRouting = TRUE
    FreshIds = TRUE
    ReadStartFails = FALSE
    Crashes = FALSE
    PermissionEvents = FALSE
    Notifications = {"CONFIG", "REQUEST", "UNREGISTER"}
    Lossy = FALSE
    MaxRequests = 1
    MaxInFlight = 1
    Items = {i1}
    i1 = i1
    Values = {0, 1}
    EventConfigs <- ReportConfigs
    ValueType = "INT"
    NoValue = NoValue
    PublishFaults = FALSE
    ReadFaults = TRUE
    Urls <- TcpUrl
    DevFiles = {}
    StartFaults = FALSE
SYMMETRY IdSymmetry
INVARIANTS
    OnlineIsServed
PROPERTIES
    DataOnlyAuthorised
    ImplementsTelemetry
    ImplementsLink
