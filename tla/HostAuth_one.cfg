SPECIFICATION FairSpec
CONSTANTS
    h1 = h1
    h2 = h2
    c1 = c1
    c2 = c2
    f1 = f1
    f2 = f2
    i1 = i1
    i2 = i2
    Hosts <- OneHost
    Callers <- TwoCallers
    Flights <- TwoFlights
    Attempts <- TwoAttempts
    None = None
    MaxSessions = 2
    MaxExpiries = 2
    MaxSignOuts = 1
    MayCancel = TRUE
INVARIANTS
    TypeOK
    OneRefreshPerToken
PROPERTIES
    SessionIsSafe
    AcceptedSessionIsKept
    RequestsAreAnswered
CHECK_DEADLOCK FALSE
