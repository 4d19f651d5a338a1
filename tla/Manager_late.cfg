SPECIFICATION Spec
CHECK_DEADLOCK FALSE
CONSTANTS
    a = a
    b = b
    c = c
    h1 = h1
    h2 = h2
    tray = tray
    s1 = s1
    Unreadable = Unreadable
    Nothing = Nothing
    Closer = tray
    Selectors <- LivenessSelectors
    Batches <- LivenessBatches
    Configs <- LivenessConfigs
    Handlers <- OneHandler
    Subscribers = {s1}
    MaxEntries = 3
    MaxCalls = 1
    MaxEdits = 0
INVARIANT ClientsSeeTheRun
