SPECIFICATION FairSpec
CONSTANTS
    Roster = {"NOISE", "ARB"}
    TotalSteps = 1
    MaxExtra = 1
    Levels = 1
    MaxInventory = 1
    MaxPosition = 1
    IdBlock = 100
    PoolCapacity = 3
    RecvMax = 2
    MaxClicks = 1
    MaxFailures = 0
PROPERTIES SimulationEnds HumanIsServed
CHECK_DEADLOCK FALSE
