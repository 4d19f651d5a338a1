SPECIFICATION Spec
CHECK_DEADLOCK FALSE
CONSTANTS
    a = a
    b = b
    c = c
    h1 = h1
    h2 = h2
    tray = tray
    s1 = s1
    Unreadable = Unreadable
    Nothing = Nothing
    Closer = tray
    Selectors <- SafetySelectors
    Batches <- SafetyBatches
    Configs <- SafetyConfigs
    Handlers <- TwoHandlers
    Subscribers = {s1}
    MaxEntries = 3
    MaxCalls = 2
    MaxEdits = 1
SYMMETRY HandlerSymmetry
INVARIANTS
    TypeOK
    OneRunAtATime
    LinedUpOnce
    WaitCoversEarlierRuns
