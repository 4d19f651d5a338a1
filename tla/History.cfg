SPECIFICATION Spec
CONSTANTS
    web = web
    cli = cli
    lane = lane
    lane2 = lane2
    dash = dash
    other = other
    None = None
    Processes = {web, cli}
    Writers <- MCWriters
    Readers <- MCReaders
    Home <- MCHome
    LegacyStores <- MCLegacyStores
    JobOf <- MCJobOf
    ServerOf <- MCServerOf
    Failed <- MCFailed
    ChunkBytes = 3
    MarginLines = 1
    MaxEntries = 4
    MaxFaults = 1
SYMMETRY LaneSymmetry
INVARIANTS
    TypeOK
    CutsCostOneEntry
    
    
    
    TailIsExact
    SummaryAddsUp
