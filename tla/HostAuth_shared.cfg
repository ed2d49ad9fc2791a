SPECIFICATION Spec
CONSTANTS
    h1 = h1
    h2 = h2
    c1 = c1
    c2 = c2
    f1 = f1
    f2 = f2
    i1 = i1
    i2 = i2
    Hosts <- TwoHosts
    Callers <- OneCaller
    Flights <- OneFlight
    Attempts <- OneAttempt
    None = None
    MaxSessions = 1
    MaxExpiries = 1
    MaxSignOuts = 1
    MayCancel = FALSE
PROPERTIES
    SignedOutStaysOut
CHECK_DEADLOCK FALSE
