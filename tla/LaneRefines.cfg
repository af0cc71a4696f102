SPECIFICATION LaneSpec
CONSTANTS
    c1 = c1
    c2 = c2
    Keeper = Keeper
    NoOne = NoOne
    Committers <- OneCommitter
    Syncs = {"full"}
    SegmentBlocks = 1
    SparesKept = 1
    Made = 50
    SpareAhead = FALSE
    MaxBlocks = 2
    MaxCheckpoints = 1
    MaxCloses = 1
    Crashes = {"process", "power"}
    MaxCrashes = 1
    MaxFails = 1
    MaxFiles = 6
PROPERTIES
    IsLogLane
    WaitReturns
CHECK_DEADLOCK FALSE
