SPECIFICATION Spec
CONSTANTS
    Ids = {a, b, c}
    a = a
    b = b
    c = c
    None = None
    Absent = Absent
    StoreFaults = TRUE
    StrictRouting = TRUE
    FreshIds = TRUE
    ReadStartFails = TRUE
    Crashes = TRUE
    PermissionEvents = FALSE
    Notifications = {"UNREGISTER"}
    Lossy = FALSE
    MaxRequests = 1
    MaxInFlight = 2
SYMMETRY IdSymmetry
PROPERTY ImplementsMembership
INVARIANTS
    OnlineAuthorised
    LinkState
    EventsFollowSession
    SessionPersisted
