SPECIFICATION JournalSpec
CONSTANTS
    Committers <- Worker2
    Stamps <- Stamps5
    NoWait = NoWait
    NoOne = NoOne
    MaxStatements = 2
    Settings <- OneLane
    Threshold = 1
    Slack = 2
    WindowMost = 1
    Crashes = {"process", "power"}
    MaxCrashes = 1
    MaxLaneFails = 1
    MaxRefusals = 1
    MaxFileFails = 0
INVARIANTS
    AckedKept
    NoneTwice
