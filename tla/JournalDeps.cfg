SPECIFICATION JournalSpec
CONSTANTS
    Committers <- Worker2
    Stamps <- Stamps5
    NoWait = NoWait
    NoOne = NoOne
    MaxStatements = 3
    Settings <- TwoLanes
    Threshold = 9
    Slack = 2
    WindowMost = 1
    Crashes = {"power"}
    MaxCrashes = 2
    MaxLaneFails = 0
    MaxRefusals = 0
    MaxFileFails = 0
INVARIANTS
    DepsKept
    CutSound
    LoggedReplays
    CutExact
    NoSleeper
