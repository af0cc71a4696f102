SPECIFICATION SnapshotsSpec
CONSTANTS
    c1 = c1
    c2 = c2
    Conns <- TwoConns
    Rows <- TwoRows
    Columns = {"a", "b"}
    Addable = {"a"}
    Statements <- AddsSetsDeletes
    Waits = TRUE
    Keyed = TRUE
    MaxIds = 3
    MaxClock = 1
    MaxWrites = 2
    SlotCount = 2
    Tables <- OneTable
    Chunks <- OneChunk
    TableOf <- Its
    MaxCommits = 1
    MaxEpoch = 1
    Idle = Idle
INVARIANTS
    
    DoneKept
    KeptOrTold
    FreedUnseen
CONSTRAINT OneEach
SYMMETRY Same
CHECK_DEADLOCK FALSE
