SPECIFICATION LaneSpec
CONSTANTS
    c1 = c1
    c2 = c2
    Keeper = Keeper
    NoOne = NoOne
    Committers <- TwoCommitters
    Syncs = {"full"}
    SegmentBlocks = 1
    SparesKept = 1
    Made = 50
    SpareAhead = TRUE
    MaxBlocks = 3
    MaxCheckpoints = 1
    MaxCloses = 0
    Crashes = {"power"}
    MaxCrashes = 1
    MaxFails = 1
    MaxFiles = 4
INVARIANTS
    NoHole
    AckedReplayed
    
    InOrder
    NamesTrue
CONSTRAINT OneBeside
CHECK_DEADLOCK FALSE
