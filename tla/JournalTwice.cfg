SPECIFICATION JournalSpec
CONSTANTS
    Committers <- Worker2
    Stamps <- Stamps5
    NoWait = NoWait
    NoOne = NoOne
    MaxStatements = 3
    Settings <- TwoLanesCommitted
    Threshold = 1
    Slack = 2
    WindowMost = 1
    Crashes = {}
    MaxCrashes = 0
    MaxLaneFails = 1
    MaxRefusals = 0
    MaxFileFails = 0
INVARIANT NoneTwice
