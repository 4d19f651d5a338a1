SPECIFICATION Spec
CHECK_DEADLOCK FALSE
CONSTANTS
    nas = nas
    home = home
    a = a
    b = b
    NoPath = NoPath
    NoServer = NoServer
    Servers <- MCServers
    Loopback <- MCLoopback
    Segments <- MCSegments
    Plans = {}
    Offered <- MCOffered
    Depth = 3
    MaxJobs = 3
INVARIANT DependenciesAreExact
