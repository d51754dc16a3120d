SPECIFICATION Spec
CONSTANTS
    Agents = {"MM", "HUMAN", "NOISE"}
    Batch = 2
    MaxOrders = 2
    MaxFailures = 0
    MaxTime = 2
INVARIANT LifetimesEndWithFills
CHECK_DEADLOCK FALSE
