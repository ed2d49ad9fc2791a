SPECIFICATION Spec
CONSTANTS
    a1 = a1
    a2 = a2
    p1 = p1
    p2 = p2
    Agents <- OneAgent
    Pids <- TwoPids
    None = None
    MaxCrashes = 0
    MaxFailures = 0
    ReusePids = FALSE
INVARIANT
    OneWorkerPerAgent
