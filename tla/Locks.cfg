SPECIFICATION LocksSpec
CONSTANTS
    Threads <- ThreeThreads
    SlotCount = 2
    SlotOf <- TwoSlots
    NoOne = NoOne
    Txns <- ThreeTxns
    HotRows <- TwoHotRows
    NoTxn = 0
    NoRow = 0
    c1 = c1
    c2 = c2
    Conns <- TwoConns
    Rows <- TwoRows
    Columns = {"a"}
    Addable = {}
    Statements <- OnlySets
    Waits = TRUE
    Keyed = FALSE
    MaxIds = 2
    MaxClock = 0
    MaxWrites = 2
    Owners <- ThreeOwners
    Keys <- TwoKeys
    Requests <- ThreeRequests
    MaxHolds = 3
    NoWait = NoWait
INVARIANTS
    LocksTypeOK
    Exclusion
    HeldAlone
    WaiterSeen
    NoCycle
    NoLostUpdate
    HoldsExact
    RingHasLooker
    SearchExact
PROPERTIES
    WriterEnters
    OldestNext
    ParkedLeaves
    WaitEnds
    DeadlockEnds
CHECK_DEADLOCK FALSE
