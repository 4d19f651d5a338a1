SPECIFICATION FairSpec
CHECK_DEADLOCK FALSE
CONSTANTS
    long = long
    short = short
    Nobody = Nobody
    Lanes <- MCLanes
    MaxLines <- MCMaxLines
    ExitCodes <- MCExitCodes
    TailLines = 2
    ErrorLines = 1
    MaxFaults = 1
INVARIANTS
    TypeOK
    StatusMatchesErrors
    ErrorsReachTheLog
    SectionsAreWhole
PROPERTY LoggingNeverBlocks
