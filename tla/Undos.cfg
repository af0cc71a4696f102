CONSTANTS
    Readers <- One
    Writers <- Two
    Columns <- Two
    Updates <- FirstOrBoth
    MaxRecord = 3
    MaxUpdates = 3
    MaxReads = 1
SPECIFICATION UndoSpec
INVARIANTS NoneFreedUnder ReadsSnapshot NoLostChange
CONSTRAINT Apart
CHECK_DEADLOCK FALSE
