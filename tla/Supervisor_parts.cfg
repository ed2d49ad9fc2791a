SPECIFICATION Spec
CONSTANTS
    a1 = a1
    a2 = a2
    p1 = p1
    p2 = p2
    Agents = {a1, a2}
    Pids = {p1, p2}
    None = None
    MaxCrashes = 1
    MaxFailures = 1
    ReusePids = TRUE
SYMMETRY PidSymmetry
CONSTRAINT FaultsOrAgents
INVARIANTS
    TypeOK
    AnsweredWorkersAreKept
PROPERTIES
    StopAllTellsEveryWorker
