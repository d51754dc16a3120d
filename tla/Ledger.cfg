SPECIFICATION Spec
CONSTANTS
    Agents = {"MM", "HUMAN", "NOISE"}
    Batch = 2
    MaxOrders = 3
    MaxFailures = 1
    MaxTime = 2
INVARIANT RecordsAgree
CHECK_DEADLOCK FALSE
