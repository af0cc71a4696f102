SPECIFICATION JournalSpec
CONSTANTS
    Committers <- Worker2
    Stamps <- Stamps5
    NoWait = NoWait
    NoOne = NoOne
    MaxStatements = 3
    Settings <- TwoLanesCommitted
    Threshold = 2
    Slack = 2
    WindowMost = 1
    Crashes = {}
    MaxCrashes = 0
    MaxLaneFails = 0
    MaxRefusals = 0
    MaxFileFails = 1
INVARIANTS
    NothingForgotten
PROPERTIES
    CommitReturns
