SPECIFICATION Spec
CONSTANTS
    Roster = {"MM"}
    TotalSteps = 2
    MaxExtra = 0
    Levels = 1
    MaxInventory = 1
    MaxPosition = 1
    IdBlock = 100
    PoolCapacity = 3
    RecvMax = 2
    MaxClicks = 2
    MaxFailures = 2
INVARIANTS NoOrderIsForgotten QuotesDoNotAccumulate SnapshotsInOrder NoIdCollides
CHECK_DEADLOCK FALSE
