SPECIFICATION Spec
CONSTANTS
    nas = nas
    home = home
    a = a
    b = b
    c = c
    d = d
    NoPath = NoPath
    NoServer = NoServer
    MainThread = MainThread
    c1 = c1
    Servers <- MCServers
    Loopback <- MCLoopback
    Segments <- MCSegments
    Cancellers <- MCCancellers
    Plans <- SafetyPlans
    MaxSizingWorkers = 1
INVARIANTS
    TypeOK
    NoOverlap
    CancelReachesBackends
    KilledIsNotJudged
    BackendInsideRun
    EveryJobAccounted
    CutShortIsNotBuiltOn

PROPERTY ImplementsSchedule
