SPECIFICATION RegistrySpec
CONSTANTS
    c1 = c1
    c2 = c2
    Conns <- TwoConns
    Rows <- OneRow
    Columns = {"a"}
    Addable = {"a"}
    Statements <- OnlySets
    Waits = TRUE
    Keyed = FALSE
    MaxIds = 2
    MaxClock = 0
    MaxWrites = 1
INVARIANT Reflected
CHECK_DEADLOCK FALSE
