SPECIFICATION Spec
CONSTANTS
    Requests = {r1}
    MaxSessions = 1
    MaxRefreshes = 0
    MaxStopFailures = 0
    InitialRoom = FALSE
CHECK_DEADLOCK FALSE
PROPERTIES
    SignOutStopsWorkers
