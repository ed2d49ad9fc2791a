SPECIFICATION PartSpec
CONSTANTS
    Requests = {r1}
    MaxSessions = 2
    MaxRefreshes = 1
    MaxStopFailures = 1
    InitialRoom = TRUE
    LiveSessions = 1
    Loads = {"load", "reload"}
    Closes = {"close"}
    MaxChildren = 3
    Clients = {"pane", "other"}
    MaxSupervisors = 3
    None = None
CHECK_DEADLOCK FALSE
INVARIANTS
    PartsTypeOK
    ServersAreOwned
    TimelySurfaceIsSignedIn
    SurfaceFollowsWorkers
PROPERTIES
    TimelyRejectionsAreCurrent
    EnteringAlwaysEnds
    EndingAlwaysEnds
    EndedSessionsLeave
    WaitsEnd
