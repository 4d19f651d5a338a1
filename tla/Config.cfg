SPECIFICATION Spec
CHECK_DEADLOCK FALSE
CONSTANTS
    t1 = t1
    t2 = t2
    Broken = Broken
    Blank = ""
    Rclone = "rclone"
    Robocopy = "robocopy"
    Words <- MCWords
    Lower <- MCLower
    Strip <- MCStrip
    Tabs = {t1, t2}
    Jobs <- MCJobs
    ServerNames = {"home"}
    InitialConfigs <- MCInitial
    Asked <- MCAsked
    MaxSaves = 2
    MaxFaults = 2
SYMMETRY TabSymmetry
INVARIANTS
    TypeOK
    ConfigStaysValid
    StraysAreExplained
    EditsNeverDangle
    SelectorsFind
    SelectionIsUnambiguous
