SPECIFICATION PoolSpec
CONSTANTS
    Callers = {c1, c2}
    Workers = {w1, w2, w3}
    Sizes <- TwoOrThree
    NoBatch = NoBatch
INVARIANTS
    NoneOutlives
PROPERTIES
    ScatterReturns
    AllLeave
CHECK_DEADLOCK FALSE
