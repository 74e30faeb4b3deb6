SPECIFICATION Spec
CONSTANTS
    Ids = {a, b}
    a = a
    b = b
    None = None
    Absent = Absent
    StoreFaults = TRUE
    StrictRouting = FALSE
    FreshIds = FALSE
    ReadStartFails = FALSE
    Crashes = TRUE
    PermissionEvents = TRUE
    Notifications = {"UPDATE", "REQUEST", "UNREGISTER"}
    Lossy = TRUE
    MaxRequests = 1
    MaxInFlight = 1
SYMMETRY IdSymmetry
INVARIANTS
    TypeOK
    TimerArmed
