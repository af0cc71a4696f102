SPECIFICATION JournalSpec
CONSTANTS
    Committers <- Worker3
    Stamps <- Stamps5
    NoWait = NoWait
    NoOne = NoOne
    MaxStatements = 3
    Settings <- TwoLanesCommitted
    Threshold = 9
    Slack = 2
    WindowMost = 1
    Crashes = {"power"}
    MaxCrashes = 1
    MaxLaneFails = 0
    MaxRefusals = 0
    MaxFileFails = 0
INVARIANT AckedKept
