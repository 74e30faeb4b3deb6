SPECIFICATION LiveSpec
CONSTANTS
    Ids = {a, b}
    a = a
    b = b
    None = None
    Absent = Absent
    StoreFaults = FALSE
    StrictRouting = TRUE
    FreshIds = FALSE
    ReadStartFails = FALSE
    Crashes = FALSE
    PermissionEvents = FALSE
    Notifications = {"UNREGISTER"}
    Lossy = FALSE
    MaxRequests = 2
    MaxInFlight = 1
INVARIANTS
    CredentialsMatch
PROPERTIES
    IdentityKept
    ResendsUntilAnswered
    EventuallySettles
