SPECIFICATION Spec
CONSTANTS
    Roster = {"MM", "ARB"}
    TotalSteps = 1
    MaxExtra = 0
    Levels = 1
    MaxInventory = 1
    MaxPosition = 1
    IdBlock = 100
    PoolCapacity = 4
    RecvMax = 2
    MaxClicks = 0
    MaxFailures = 0
INVARIANT InventoryIsTracked
CHECK_DEADLOCK FALSE
