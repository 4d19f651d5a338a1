SPECIFICATION FairSpec
CHECK_DEADLOCK FALSE
CONSTANTS
    a = a
    b = b
    c = c
    h1 = h1
    h2 = h2
    tray = tray
    s1 = s1
    Unreadable = Unreadable
    Nothing = Nothing
    Closer = tray
    Selectors <- LivenessSelectors
    Batches <- LivenessBatches
    Configs <- LivenessConfigs
    Handlers <- OneHandler
    Subscribers = {}
    MaxEntries = 3
    MaxCalls = 2
    MaxEdits = 1
PROPERTIES
    ImplementsQueue
    RunsEnd
    QueueDrains
